---- MODULE Spec2Model ----
(***************************************************************************)
(* Knowledge-graph store (database_utils.DatabaseConnection over the       *)
(* schema of db_init.SCHEMA_SQL) and the ingestion run of                  *)
(* extract_and_populate.process_papers.                                    *)
(*                                                                         *)
(* Conventions.  A nullable text column holds NULL or a string; NULL is a  *)
(* token distinct from every string the inputs use, and from "" (the empty *)
(* string, which Python and SQL both keep apart from None/NULL).  A        *)
(* nullable numeric column holds NoNum (<<>>) or Num(v) (<<v>>).  FLOAT    *)
(* scores are counted in tenths: Num(4) is 0.4, Num(10) is 1.0.            *)
(* CURRENT_TIMESTAMP is a logical clock per table: the number of INSERT    *)
(* statements issued against the table so far.                             *)
(***************************************************************************)
EXTENDS Integers, Sequences, FiniteSets, TLC

\* db     the store: the five tables and their SERIAL sequences
\* ret    the last call made to the store and what it gave back
\* hist   history of the calls (for stating the properties; see NoHist)
\* pc, queue, idx, stats, local   the run of process_papers: its position, its
\*        papers_metadata argument, the loop index, the counters, and the
\*        loop body's full_text and paper_id
\* files  the PDF files on disk, by path
VARIABLES db, ret, hist, pc, queue, idx, stats, local, files

vars == <<db, ret, hist, pc, queue, idx, stats, local, files>>

runVars == <<pc, queue, idx, stats, local, files>>

NULL == "<NULL>"

\* A key the dictionary does not have.
MISSING == "<MISSING>"

NoNum == <<>>

Num(v) == <<v>>

IsNum(x) == x # NoNum

Val(x) == x[1]

\* ------------------------------------------------------------------ bounds

\* Largest value each SERIAL sequence may reach: bounds the INSERT statements
\* issued against a table.
MaxPaperSeq == 3

MaxConceptSeq == 3

MaxLinkSeq == 3

MaxRelSeq == 2

MaxLogSeq == 3

\* Longest papers_metadata list handed to process_papers.
MaxPapers == 2

\* Largest value the papers and extraction_logs sequences may reach through
\* runs of process_papers.
MaxRunPaperSeq == 2

MaxRunLogSeq == 2

\* ------------------------------------------------------------------ schema

\* db_init.SCHEMA_SQL: the five tables, empty, every SERIAL sequence unused.
EmptyDb ==
    [papers |-> {}, papers_id_seq |-> 0,
     concepts |-> {}, concepts_id_seq |-> 0,
     paper_concepts |-> {}, paper_concepts_id_seq |-> 0,
     paper_relationships |-> {}, paper_relationships_id_seq |-> 0,
     extraction_logs |-> {}, extraction_logs_id_seq |-> 0]

\* DEFAULT CURRENT_TIMESTAMP of the statement about to run against a table
\* whose sequence stands at seq.
Now(seq) == seq + 1

\* CHECK (x BETWEEN 0 AND 1): a NULL passes a CHECK constraint.
CheckUnit(x) == ~IsNum(x) \/ (0 <= Val(x) /\ Val(x) <= 10)

\* Result of one statement: the store after it, the value it returns and the
\* error it raises ("none" when it commits).
Ok(d, result) == [db |-> d, result |-> result, error |-> "none"]

Fail(d, error) == [db |-> d, result |-> NoNum, error |-> error]

\* ------------------------------------------------------------------ papers

PaperRow(d, arxiv_id) == CHOOSE r \in d.papers : r.arxiv_id = arxiv_id

HasPaper(d, arxiv_id) == \E r \in d.papers : r.arxiv_id = arxiv_id

\* Mutant of insert_paper: the SET list of the conflict branch leaves out
\* full_text, so a re-upsert keeps the stale text.
insert_paper_stale_text(d, paper_data) ==
    LET id == d.papers_id_seq + 1
        d1 == [d EXCEPT !.papers_id_seq = id]
    IN  IF paper_data.arxiv_id = NULL \/ paper_data.title = NULL
        THEN Fail(d1, "not_null_violation")
        ELSE IF HasPaper(d, paper_data.arxiv_id)
        THEN LET old == PaperRow(d, paper_data.arxiv_id)
                 new == [old EXCEPT !.title = paper_data.title,
                                    !.abstract = paper_data.abstract]
             IN  Ok([d1 EXCEPT !.papers = (@ \ {old}) \cup {new}], Num(old.id))
        ELSE Ok([d1 EXCEPT !.papers = @ \cup
                    {[id |-> id,
                      arxiv_id |-> paper_data.arxiv_id,
                      title |-> paper_data.title,
                      abstract |-> paper_data.abstract,
                      authors |-> paper_data.authors,
                      published_date |-> paper_data.published_date,
                      pdf_path |-> paper_data.pdf_path,
                      full_text |-> paper_data.full_text,
                      is_seminal |-> paper_data.is_seminal,
                      processed_at |-> Now(d.papers_id_seq)]}], Num(id))

\* A variant without conflict clause on a table without unique constraint:
\* every call adds a row.
insert_paper_appends(d, paper_data) ==
    LET id == d.papers_id_seq + 1
        d1 == [d EXCEPT !.papers_id_seq = id]
    IN  IF paper_data.arxiv_id = NULL \/ paper_data.title = NULL
        THEN Fail(d1, "not_null_violation")
        ELSE Ok([d1 EXCEPT !.papers = @ \cup
                    {[id |-> id,
                      arxiv_id |-> paper_data.arxiv_id,
                      title |-> paper_data.title,
                      abstract |-> paper_data.abstract,
                      authors |-> paper_data.authors,
                      published_date |-> paper_data.published_date,
                      pdf_path |-> paper_data.pdf_path,
                      full_text |-> paper_data.full_text,
                      is_seminal |-> paper_data.is_seminal,
                      processed_at |-> Now(d.papers_id_seq)]}], Num(id))

\* A variant whose conflict branch overwrites every column it was given.
insert_paper_overwrites_all(d, paper_data) ==
    LET id == d.papers_id_seq + 1
        d1 == [d EXCEPT !.papers_id_seq = id]
    IN  IF paper_data.arxiv_id = NULL \/ paper_data.title = NULL
        THEN Fail(d1, "not_null_violation")
        ELSE IF HasPaper(d, paper_data.arxiv_id)
        THEN LET old == PaperRow(d, paper_data.arxiv_id)
                 new == [old EXCEPT !.title = paper_data.title,
                                    !.abstract = paper_data.abstract,
                                    !.authors = paper_data.authors,
                                    !.published_date = paper_data.published_date,
                                    !.full_text = paper_data.full_text,
                                    !.processed_at = Now(d.papers_id_seq)]
             IN  Ok([d1 EXCEPT !.papers = (@ \ {old}) \cup {new}], Num(old.id))
        ELSE Ok([d1 EXCEPT !.papers = @ \cup
                    {[id |-> id,
                      arxiv_id |-> paper_data.arxiv_id,
                      title |-> paper_data.title,
                      abstract |-> paper_data.abstract,
                      authors |-> paper_data.authors,
                      published_date |-> paper_data.published_date,
                      pdf_path |-> paper_data.pdf_path,
                      full_text |-> paper_data.full_text,
                      is_seminal |-> paper_data.is_seminal,
                      processed_at |-> Now(d.papers_id_seq)]}], Num(id))

\* A variant that resolves the conflict on arxiv_id without checking the title.
insert_paper_title_unchecked(d, paper_data) ==
    LET id == d.papers_id_seq + 1
        d1 == [d EXCEPT !.papers_id_seq = id]
    IN  IF paper_data.arxiv_id = MISSING \/ paper_data.title = MISSING
        THEN Fail(d, "statement_error")
        ELSE IF paper_data.arxiv_id = NULL
        THEN Fail(d1, "not_null_violation")
        ELSE IF HasPaper(d, paper_data.arxiv_id)
        THEN LET old == PaperRow(d, paper_data.arxiv_id)
                 new == [old EXCEPT !.title = paper_data.title,
                                    !.abstract = paper_data.abstract,
                                    !.full_text = paper_data.full_text]
             IN  Ok([d1 EXCEPT !.papers = (@ \ {old}) \cup {new}], Num(old.id))
        ELSE Ok([d1 EXCEPT !.papers = @ \cup
                    {[id |-> id,
                      arxiv_id |-> paper_data.arxiv_id,
                      title |-> paper_data.title,
                      abstract |-> paper_data.abstract,
                      authors |-> paper_data.authors,
                      published_date |-> paper_data.published_date,
                      pdf_path |-> paper_data.pdf_path,
                      full_text |-> paper_data.full_text,
                      is_seminal |-> paper_data.is_seminal,
                      processed_at |-> Now(d.papers_id_seq)]}], Num(id))

\* INSERT INTO papers ... ON CONFLICT (arxiv_id) DO UPDATE SET title, abstract,
\* full_text RETURNING id.  A dictionary without a key the statement binds is
\* rejected before the statement is sent.  nextval is taken before any
\* constraint is checked, NOT NULL is checked on the proposed row before the
\* conflict is resolved.
insert_paper(d, paper_data) ==
    LET id == d.papers_id_seq + 1
        d1 == [d EXCEPT !.papers_id_seq = id]
    IN  IF paper_data.arxiv_id = MISSING \/ paper_data.title = MISSING
        THEN Fail(d, "statement_error")
        ELSE IF paper_data.arxiv_id = NULL \/ paper_data.title = NULL
        THEN Fail(d1, "not_null_violation")
        ELSE IF HasPaper(d, paper_data.arxiv_id)
        THEN LET old == PaperRow(d, paper_data.arxiv_id)
                 new == [old EXCEPT !.title = paper_data.title,
                                    !.abstract = paper_data.abstract,
                                    !.full_text = paper_data.full_text]
             IN  Ok([d1 EXCEPT !.papers = (@ \ {old}) \cup {new}], Num(old.id))
        ELSE Ok([d1 EXCEPT !.papers = @ \cup
                    {[id |-> id,
                      arxiv_id |-> paper_data.arxiv_id,
                      title |-> paper_data.title,
                      abstract |-> paper_data.abstract,
                      authors |-> paper_data.authors,
                      published_date |-> paper_data.published_date,
                      pdf_path |-> paper_data.pdf_path,
                      full_text |-> paper_data.full_text,
                      is_seminal |-> paper_data.is_seminal,
                      processed_at |-> Now(d.papers_id_seq)]}], Num(id))

\* A variant whose query has no WHERE clause: the row of lowest id, if any.
get_paper_unfiltered(d, arxiv_id) ==
    IF d.papers = {} THEN <<>>
    ELSE <<CHOOSE r \in d.papers : \A q \in d.papers : r.id <= q.id>>

\* SELECT * FROM papers WHERE arxiv_id = :arxiv_id; results[0] if results else
\* None: <<row>> when the paper is stored, <<>> (None) when it is not.
get_paper_by_arxiv_id(d, arxiv_id) ==
    IF HasPaper(d, arxiv_id) THEN <<PaperRow(d, arxiv_id)>> ELSE <<>>

\* A variant whose cascade follows source_paper_id only.
delete_paper_source_cascade(d, arxiv_id) ==
    LET gone == {r.id : r \in {p \in d.papers : p.arxiv_id = arxiv_id}}
    IN  [d EXCEPT
            !.papers = {p \in @ : p.id \notin gone},
            !.paper_concepts = {l \in @ : l.paper_id \notin gone},
            !.paper_relationships = {e \in @ : e.source_paper_id \notin gone},
            !.extraction_logs = {g \in @ : g.paper_id = NoNum \/ Val(g.paper_id) \notin gone}]

\* DELETE FROM papers WHERE arxiv_id = :arxiv_id, with the ON DELETE CASCADE of
\* paper_concepts, paper_relationships and extraction_logs.
delete_paper(d, arxiv_id) ==
    LET gone == {r.id : r \in {p \in d.papers : p.arxiv_id = arxiv_id}}
    IN  [d EXCEPT
            !.papers = {p \in @ : p.id \notin gone},
            !.paper_concepts = {l \in @ : l.paper_id \notin gone},
            !.paper_relationships =
                {e \in @ : e.source_paper_id \notin gone /\ e.target_paper_id \notin gone},
            !.extraction_logs = {g \in @ : g.paper_id = NoNum \/ Val(g.paper_id) \notin gone}]

\* ---------------------------------------------------------------- concepts

ConceptRow(d, name) == CHOOSE c \in d.concepts : c.name = name

HasConcept(d, name) == \E c \in d.concepts : c.name = name

\* Mutant of insert_concept: the conflict branch also takes the new
\* description (SET description = EXCLUDED.description).
insert_concept_overwrites(d, name, concept_type, description) ==
    LET id == d.concepts_id_seq + 1
        d1 == [d EXCEPT !.concepts_id_seq = id]
    IN  IF name = NULL
        THEN Fail(d1, "not_null_violation")
        ELSE IF HasConcept(d, name)
        THEN LET old == ConceptRow(d, name)
                 new == [old EXCEPT !.mention_count = @ + 1, !.description = description]
             IN  Ok([d1 EXCEPT !.concepts = (@ \ {old}) \cup {new}], Num(old.id))
        ELSE Ok([d1 EXCEPT !.concepts = @ \cup
                    {[id |-> id,
                      name |-> name,
                      description |-> description,
                      concept_type |-> concept_type,
                      mention_count |-> 1,
                      created_at |-> Now(d.concepts_id_seq)]}], Num(id))

\* INSERT INTO concepts (name, concept_type, description) ... ON CONFLICT (name)
\* DO UPDATE SET mention_count = concepts.mention_count + 1 RETURNING id.
\* concept_type is a plain VARCHAR(50): the schema lists the five types in a
\* comment only.  mention_count takes its DEFAULT 1 on a first insertion.
insert_concept(d, name, concept_type, description) ==
    LET id == d.concepts_id_seq + 1
        d1 == [d EXCEPT !.concepts_id_seq = id]
    IN  IF name = NULL
        THEN Fail(d1, "not_null_violation")
        ELSE IF HasConcept(d, name)
        THEN LET old == ConceptRow(d, name)
                 new == [old EXCEPT !.mention_count = @ + 1]
             IN  Ok([d1 EXCEPT !.concepts = (@ \ {old}) \cup {new}], Num(old.id))
        ELSE Ok([d1 EXCEPT !.concepts = @ \cup
                    {[id |-> id,
                      name |-> name,
                      description |-> description,
                      concept_type |-> concept_type,
                      mention_count |-> 1,
                      created_at |-> Now(d.concepts_id_seq)]}], Num(id))

\* Mutant of link_paper_concept: ON CONFLICT DO UPDATE (latest wins).
link_paper_concept_latest(d, paper_id, concept_id, relevance_score, context) ==
    LET id == d.paper_concepts_id_seq + 1
        d1 == [d EXCEPT !.paper_concepts_id_seq = id]
        hit == {l \in d.paper_concepts : l.paper_id = paper_id /\ l.concept_id = concept_id}
    IN  IF ~CheckUnit(relevance_score)
        THEN Fail(d1, "check_violation")
        ELSE IF hit # {}
        THEN Ok([d1 EXCEPT !.paper_concepts = (@ \ hit) \cup
                    {[l EXCEPT !.relevance_score = relevance_score, !.context = context] :
                        l \in hit}], NoNum)
        ELSE IF ~(\E p \in d.papers : p.id = paper_id)
                    \/ ~(\E c \in d.concepts : c.id = concept_id)
        THEN Fail(d1, "foreign_key_violation")
        ELSE Ok([d1 EXCEPT !.paper_concepts = @ \cup
                    {[id |-> id,
                      paper_id |-> paper_id,
                      concept_id |-> concept_id,
                      relevance_score |-> relevance_score,
                      context |-> context]}], NoNum)

\* INSERT INTO paper_concepts ... ON CONFLICT (paper_id, concept_id) DO NOTHING.
\* The CHECK on relevance_score is evaluated on the proposed row before the
\* conflict is looked up; the foreign keys are checked when a row is written.
\* execute_update returns nothing to the caller.
link_paper_concept(d, paper_id, concept_id, relevance_score, context) ==
    LET id == d.paper_concepts_id_seq + 1
        d1 == [d EXCEPT !.paper_concepts_id_seq = id]
    IN  IF ~CheckUnit(relevance_score)
        THEN Fail(d1, "check_violation")
        ELSE IF \E l \in d.paper_concepts :
                    l.paper_id = paper_id /\ l.concept_id = concept_id
        THEN Ok(d1, NoNum)
        ELSE IF ~(\E p \in d.papers : p.id = paper_id)
                    \/ ~(\E c \in d.concepts : c.id = concept_id)
        THEN Fail(d1, "foreign_key_violation")
        ELSE Ok([d1 EXCEPT !.paper_concepts = @ \cup
                    {[id |-> id,
                      paper_id |-> paper_id,
                      concept_id |-> concept_id,
                      relevance_score |-> relevance_score,
                      context |-> context]}], NoNum)

\* ----------------------------------------------------------- relationships

SameTriple(e, source_paper_id, target_paper_id, relationship_type) ==
    /\ e.source_paper_id = source_paper_id
    /\ e.target_paper_id = target_paper_id
    /\ e.relationship_type = relationship_type

\* Mutant of insert_relationship: the CHECKs guard only a first insertion; the
\* conflict branch overwrites without them.
insert_relationship_unchecked_update(d, source_paper_id, target_paper_id, relationship_type, explanation, confidence) ==
    LET id == d.paper_relationships_id_seq + 1
        d1 == [d EXCEPT !.paper_relationships_id_seq = id]
        hit == {e \in d.paper_relationships :
                    SameTriple(e, source_paper_id, target_paper_id, relationship_type)}
    IN  IF explanation = NULL \/ relationship_type = NULL
        THEN Fail(d1, "not_null_violation")
        ELSE IF hit # {}
        THEN LET old == CHOOSE e \in hit : TRUE
                 new == [old EXCEPT !.explanation = explanation,
                                    !.confidence = confidence]
             IN  Ok([d1 EXCEPT !.paper_relationships = (@ \ {old}) \cup {new}],
                    Num(old.id))
        ELSE IF ~CheckUnit(confidence) \/ source_paper_id = target_paper_id
        THEN Fail(d1, "check_violation")
        ELSE IF ~(\E p \in d.papers : p.id = source_paper_id)
                    \/ ~(\E p \in d.papers : p.id = target_paper_id)
        THEN Fail(d1, "foreign_key_violation")
        ELSE Ok([d1 EXCEPT !.paper_relationships = @ \cup
                    {[id |-> id,
                      source_paper_id |-> source_paper_id,
                      target_paper_id |-> target_paper_id,
                      relationship_type |-> relationship_type,
                      explanation |-> explanation,
                      confidence |-> confidence,
                      extracted_at |-> Now(d.paper_relationships_id_seq),
                      validated |-> FALSE]}], Num(id))

\* Mutant of insert_relationship: the unique key is (source, target) only, so
\* an upsert with another type overwrites the pair's edge.
insert_relationship_pair_key(d, source_paper_id, target_paper_id, relationship_type, explanation, confidence) ==
    LET id == d.paper_relationships_id_seq + 1
        d1 == [d EXCEPT !.paper_relationships_id_seq = id]
        hit == {e \in d.paper_relationships :
                    /\ e.source_paper_id = source_paper_id
                    /\ e.target_paper_id = target_paper_id}
    IN  IF explanation = NULL \/ relationship_type = NULL
        THEN Fail(d1, "not_null_violation")
        ELSE IF ~CheckUnit(confidence) \/ source_paper_id = target_paper_id
        THEN Fail(d1, "check_violation")
        ELSE IF hit # {}
        THEN LET old == CHOOSE e \in hit : TRUE
                 new == [old EXCEPT !.relationship_type = relationship_type,
                                    !.explanation = explanation,
                                    !.confidence = confidence]
             IN  Ok([d1 EXCEPT !.paper_relationships = (@ \ {old}) \cup {new}],
                    Num(old.id))
        ELSE IF ~(\E p \in d.papers : p.id = source_paper_id)
                    \/ ~(\E p \in d.papers : p.id = target_paper_id)
        THEN Fail(d1, "foreign_key_violation")
        ELSE Ok([d1 EXCEPT !.paper_relationships = @ \cup
                    {[id |-> id,
                      source_paper_id |-> source_paper_id,
                      target_paper_id |-> target_paper_id,
                      relationship_type |-> relationship_type,
                      explanation |-> explanation,
                      confidence |-> confidence,
                      extracted_at |-> Now(d.paper_relationships_id_seq),
                      validated |-> FALSE]}], Num(id))

\* Mutant of insert_relationship: the conflict branch replaces the row (delete
\* and insert), so the edge gets a new identity and validated falls back to
\* its default.
insert_relationship_replace(d, source_paper_id, target_paper_id, relationship_type, explanation, confidence) ==
    LET id == d.paper_relationships_id_seq + 1
        d1 == [d EXCEPT !.paper_relationships_id_seq = id]
        hit == {e \in d.paper_relationships :
                    SameTriple(e, source_paper_id, target_paper_id, relationship_type)}
    IN  IF explanation = NULL \/ relationship_type = NULL
        THEN Fail(d1, "not_null_violation")
        ELSE IF ~CheckUnit(confidence) \/ source_paper_id = target_paper_id
        THEN Fail(d1, "check_violation")
        ELSE IF hit = {} /\ (~(\E p \in d.papers : p.id = source_paper_id)
                              \/ ~(\E p \in d.papers : p.id = target_paper_id))
        THEN Fail(d1, "foreign_key_violation")
        ELSE Ok([d1 EXCEPT !.paper_relationships = (@ \ hit) \cup
                    {[id |-> id,
                      source_paper_id |-> source_paper_id,
                      target_paper_id |-> target_paper_id,
                      relationship_type |-> relationship_type,
                      explanation |-> explanation,
                      confidence |-> confidence,
                      extracted_at |-> Now(d.paper_relationships_id_seq),
                      validated |-> FALSE]}], Num(id))

\* INSERT INTO paper_relationships ... ON CONFLICT (source_paper_id,
\* target_paper_id, relationship_type) DO UPDATE SET explanation, confidence
\* RETURNING id.  The row's CHECKs (confidence BETWEEN 0 AND 1,
\* source_paper_id != target_paper_id) and NOT NULL explanation are evaluated
\* on the proposed row before the conflict is looked up; validated takes its
\* DEFAULT FALSE on a first insertion and is not in the SET list.
insert_relationship(d, source_paper_id, target_paper_id, relationship_type, explanation, confidence) ==
    LET id == d.paper_relationships_id_seq + 1
        d1 == [d EXCEPT !.paper_relationships_id_seq = id]
        hit == {e \in d.paper_relationships :
                    SameTriple(e, source_paper_id, target_paper_id, relationship_type)}
    IN  IF explanation = NULL \/ relationship_type = NULL
        THEN Fail(d1, "not_null_violation")
        ELSE IF ~CheckUnit(confidence) \/ source_paper_id = target_paper_id
        THEN Fail(d1, "check_violation")
        ELSE IF hit # {}
        THEN LET old == CHOOSE e \in hit : TRUE
                 new == [old EXCEPT !.explanation = explanation,
                                    !.confidence = confidence]
             IN  Ok([d1 EXCEPT !.paper_relationships = (@ \ {old}) \cup {new}],
                    Num(old.id))
        ELSE IF ~(\E p \in d.papers : p.id = source_paper_id)
                    \/ ~(\E p \in d.papers : p.id = target_paper_id)
        THEN Fail(d1, "foreign_key_violation")
        ELSE Ok([d1 EXCEPT !.paper_relationships = @ \cup
                    {[id |-> id,
                      source_paper_id |-> source_paper_id,
                      target_paper_id |-> target_paper_id,
                      relationship_type |-> relationship_type,
                      explanation |-> explanation,
                      confidence |-> confidence,
                      extracted_at |-> Now(d.paper_relationships_id_seq),
                      validated |-> FALSE]}], Num(id))

\* The curation step the validated column exists for:
\* UPDATE paper_relationships SET validated = TRUE WHERE id = :id.
validate_relationship(d, id) ==
    [d EXCEPT !.paper_relationships =
        {IF e.id = id THEN [e EXCEPT !.validated = TRUE] ELSE e : e \in @}]

\* ------------------------------------------------------------- audit log

\* A variant that logs the stage without the paper it is about.
log_extraction_anonymous(d, paper_id, stage, status, error_message, processing_time) ==
    LET id == d.extraction_logs_id_seq + 1
        d1 == [d EXCEPT !.extraction_logs_id_seq = id]
    IN  IF stage = NULL \/ status = NULL
        THEN Fail(d1, "not_null_violation")
        ELSE Ok([d1 EXCEPT !.extraction_logs = @ \cup
                    {[id |-> id,
                      paper_id |-> NoNum,
                      stage |-> stage,
                      status |-> status,
                      error_message |-> error_message,
                      processing_time_seconds |-> processing_time,
                      created_at |-> Now(d.extraction_logs_id_seq)]}], NoNum)

\* INSERT INTO extraction_logs (paper_id, stage, status, error_message,
\* processing_time_seconds): no uniqueness constraint, one new row per call;
\* paper_id is a nullable foreign key.
log_extraction(d, paper_id, stage, status, error_message, processing_time) ==
    LET id == d.extraction_logs_id_seq + 1
        d1 == [d EXCEPT !.extraction_logs_id_seq = id]
    IN  IF stage = NULL \/ status = NULL
        THEN Fail(d1, "not_null_violation")
        ELSE IF IsNum(paper_id) /\ ~(\E p \in d.papers : p.id = Val(paper_id))
        THEN Fail(d1, "foreign_key_violation")
        ELSE Ok([d1 EXCEPT !.extraction_logs = @ \cup
                    {[id |-> id,
                      paper_id |-> paper_id,
                      stage |-> stage,
                      status |-> status,
                      error_message |-> error_message,
                      processing_time_seconds |-> processing_time,
                      created_at |-> Now(d.extraction_logs_id_seq)]}], NoNum)

\* ------------------------------------------------------- inputs and history

ArxivIds == {"P1", "P2"}

\* The dictionaries callers pass to insert_paper: identifier and title may be
\* None; abstract, authors and date come in two versions.
PaperVersions ==
    {[abstract |-> "abstract", authors |-> <<"author">>, published_date |-> "2023-08-04"],
     [abstract |-> "", authors |-> <<>>, published_date |-> NULL]}

PaperInputs ==
    {[arxiv_id |-> a, title |-> t, abstract |-> v.abstract, authors |-> v.authors,
      published_date |-> v.published_date, pdf_path |-> NULL, full_text |-> x,
      is_seminal |-> FALSE] :
        a \in ArxivIds \cup {NULL}, t \in {"A", "B", NULL},
        x \in {NULL, "", "hello"}, v \in PaperVersions}

\* Dictionaries that lack the key arxiv_id or the key title.
KeylessInputs ==
    {[arxiv_id |-> a, title |-> t, abstract |-> "", authors |-> <<>>,
      published_date |-> NULL, pdf_path |-> NULL, full_text |-> "hello",
      is_seminal |-> FALSE] :
        a \in {"P1", NULL, MISSING}, t \in {"A", NULL, MISSING}}
        \ PaperInputs

\* The skeleton records of the bulk upload and of the metadata-only fallback:
\* one fixed record per identifier, no text.
StubInputs ==
    {[arxiv_id |-> a, title |-> "A", abstract |-> "", authors |-> <<>>,
      published_date |-> NULL, pdf_path |-> NULL, full_text |-> NULL,
      is_seminal |-> FALSE] : a \in ArxivIds}

ConceptNames == {"NeRF", "3DGS"}

\* 'bogus' stands for any string outside the five documented types.
ConceptTypes == {"method", "bogus"}

Descriptions == {NULL, "first", "second"}

ConceptInputs ==
    [name : ConceptNames \cup {NULL}, concept_type : ConceptTypes, description : Descriptions]

PaperIds == 1..MaxPaperSeq

ConceptIds == 1..MaxConceptSeq

\* Scores in tenths: absent, 0.5, 0.9 and the out-of-range 1.5.
LinkVersions ==
    {[relevance_score |-> Num(5), context |-> "ctx"],
     [relevance_score |-> Num(9), context |-> NULL],
     [relevance_score |-> NoNum, context |-> "ctx"],
     [relevance_score |-> Num(15), context |-> "ctx"]}

LinkInputs ==
    {[paper_id |-> p, concept_id |-> c, relevance_score |-> v.relevance_score,
      context |-> v.context] : p \in PaperIds, c \in ConceptIds, v \in LinkVersions}

RelTypes == {"cites", "extends"}

\* Confidence in tenths: absent, -0.1, 0.4, 0.9 and 1.1.
RelVersions ==
    {[explanation |-> "because", confidence |-> Num(9)],
     [explanation |-> "updated", confidence |-> Num(4)],
     [explanation |-> "because", confidence |-> NoNum],
     [explanation |-> "updated", confidence |-> Num(-1)],
     [explanation |-> "because", confidence |-> Num(11)]}

RelInputs ==
    {[source_paper_id |-> s, target_paper_id |-> t, relationship_type |-> y,
      explanation |-> v.explanation, confidence |-> v.confidence] :
        s \in PaperIds, t \in PaperIds, y \in RelTypes, v \in RelVersions}

\* What the last call was and what it gave back to its caller.
Ret(op, key, r) == [op |-> op, key |-> key, result |-> r.result, error |-> r.error]

NoRet == [op |-> "none", key |-> NULL, result |-> NoNum, error |-> "none"]

\* History of the calls made so far (not state of the program):
\*   paper[a]  the title, abstract and full text passed by the most recent
\*             committed insert_paper call for identifier a since a was last
\*             deleted, as <<fields>>; <<>> when there was none.
\*   concept[n] the number of committed insert_concept calls for name n, with
\*             the description passed and the identity returned by the first.
\*   link      for each (paper, concept) pair now linked, the relevance and
\*             context passed by the first committed link_paper_concept call.
\*   rel       for each (source, target, type) triple now stored, the
\*             explanation and confidence passed by the most recent committed
\*             insert_relationship call.
\*   retry     the identifiers whose text extraction failed in process_papers
\*             and for which no text was stored since.
NoHist ==
    [paper |-> [a \in ArxivIds |-> <<>>],
     concept |-> [n \in ConceptNames |-> <<>>],
     link |-> {},
     rel |-> {},
     retry |-> {}]

ZeroStats == [total |-> 0, successful |-> 0, failed_pdf |-> 0, failed_db |-> 0, skipped |-> 0]

\* ------------------------------------------------------------ files, PDFs

\* f"papers/pdfs/{arxiv_id}.pdf"
PdfPath(arxiv_id) == "papers/pdfs/" \o arxiv_id \o ".pdf"

Paths == {PdfPath(a) : a \in ArxivIds}

\* A path on disk: absent, or a file that fitz can or cannot open, with the
\* text of each of its pages.
NoFile == [exists |-> FALSE, readable |-> FALSE, pages |-> <<>>]

Unreadable == [exists |-> TRUE, readable |-> FALSE, pages |-> <<>>]

Pdf(pages) == [exists |-> TRUE, readable |-> TRUE, pages |-> pages]

\* The files tried at each path: P1's PDF may be unreadable or have no page,
\* P2's is a sound one-page PDF when it is there.
FileKinds(a) ==
    IF a = "P1"
    THEN {NoFile, Unreadable, Pdf(<<>>), Pdf(<<"hello">>)}
    ELSE {NoFile, Pdf(<<"world">>)}

NoFiles == [path \in Paths |-> NoFile]

\* os.path.exists(pdf_path)
os_path_exists(fs, pdf_path) == pdf_path \in DOMAIN fs /\ fs[pdf_path].exists

Whitespace == {" ", "\n", "\t", "\r"}

RECURSIVE lstrip(_)
lstrip(str) ==
    IF Len(str) > 0 /\ SubSeq(str, 1, 1) \in Whitespace
    THEN lstrip(SubSeq(str, 2, Len(str)))
    ELSE str

RECURSIVE rstrip(_)
rstrip(str) ==
    IF Len(str) > 0 /\ SubSeq(str, Len(str), Len(str)) \in Whitespace
    THEN rstrip(SubSeq(str, 1, Len(str) - 1))
    ELSE str

\* str.strip()
strip(str) == rstrip(lstrip(str))

\* "".join(full_text) of the loop over enumerate(doc, 1): a page-break marker
\* and the page's text, page by page.
RECURSIVE join_pages(_, _)
join_pages(pages, page_num) ==
    IF page_num > Len(pages)
    THEN ""
    ELSE "\n--- Page " \o ToString(page_num) \o " ---\n" \o pages[page_num]
            \o join_pages(pages, page_num + 1)

\* PDFTextExtractor.extract_text: the stripped text, or None (NULL) when fitz
\* raises or the text is empty.
extract_text(fs, pdf_path) ==
    IF ~fs[pdf_path].readable
    THEN NULL
    ELSE LET extracted == strip(join_pages(fs[pdf_path].pages, 1))
         IN  IF extracted # "" THEN extracted ELSE NULL

\* ------------------------------------------------------- papers_metadata

\* dict.get(key, default)
get(value, default) == IF value = MISSING THEN default ELSE value

\* Python truthiness of an Optional[str]: neither None nor "".
Truthy(str) == str # NULL /\ str # ""

\* The entries of papers_metadata.json as the fetch scripts write them: with
\* the downloaded PDF's path or None; one entry lacks its title.
MetaOf(a, title, local_pdf_path) ==
    [arxiv_id |-> a, title |-> title, abstract |-> "abstract",
     authors |-> <<"author">>, published |-> "2023-08-04T17:59:59Z",
     local_pdf_path |-> local_pdf_path, is_seminal |-> a = "P1"]

MetaEntries ==
    {MetaOf(a, "A", NULL) : a \in ArxivIds}
        \cup {MetaOf(a, "A", PdfPath(a)) : a \in ArxivIds}
        \cup {MetaOf("P2", MISSING, PdfPath("P2"))}

RECURSIVE SeqsUpTo(_, _)
SeqsUpTo(S, n) ==
    IF n = 0
    THEN {<<>>}
    ELSE LET shorter == SeqsUpTo(S, n - 1)
         IN  shorter \cup {Append(q, x) : q \in {r \in shorter : Len(r) = n - 1}, x \in S}

MetaLists == SeqsUpTo(MetaEntries, MaxPapers)

\* published_date.split('T')[0]
RECURSIVE before_T(_, _)
before_T(str, n) ==
    IF n > Len(str) THEN str
    ELSE IF SubSeq(str, n, n) = "T" THEN SubSeq(str, 1, n - 1)
    ELSE before_T(str, n + 1)

\* extract_and_populate.prepare_paper_data (the fetch scripts always write
\* the authors and is_seminal keys, so their defaults are not taken).
prepare_paper_data(metadata, full_text) ==
    LET published == get(metadata.published, "")
        published_date == IF published # "" THEN before_T(published, 1) ELSE published
    IN  [arxiv_id |-> metadata.arxiv_id,
         title |-> metadata.title,
         abstract |-> get(metadata.abstract, ""),
         authors |-> metadata.authors,
         published_date |-> IF published_date # "" THEN published_date ELSE NULL,
         pdf_path |-> get(metadata.local_pdf_path, NULL),
         full_text |-> full_text,
         is_seminal |-> metadata.is_seminal]

NoLocal == [full_text |-> NULL, paper_id |-> NoNum]

RunIdle ==
    /\ pc = "idle"
    /\ queue = <<>>
    /\ idx = 0
    /\ stats = ZeroStats
    /\ local = NoLocal
    /\ files = NoFiles

\* ------------------------------------------------------ store: paper calls

\* The history after an insert_paper call with result r.
HistPaper(h, paper_data, r) ==
    IF r.error = "none"
    THEN [h EXCEPT !.paper[paper_data.arxiv_id] =
            <<[title |-> paper_data.title,
               abstract |-> paper_data.abstract,
               full_text |-> paper_data.full_text]>>]
    ELSE h

\* A caller runs insert_paper(paper_data).
InsertPaper(paper_data) ==
    /\ db.papers_id_seq < MaxPaperSeq
    /\ LET r == insert_paper(db, paper_data)
       IN  /\ db' = r.db
           /\ ret' = Ret("insert_paper", paper_data.arxiv_id, r)
           /\ hist' = HistPaper(hist, paper_data, r)
    /\ UNCHANGED runVars

\* test_db.main's clean-up: DELETE FROM papers WHERE arxiv_id = :arxiv_id.
DeletePaper(arxiv_id) ==
    /\ db' = delete_paper(db, arxiv_id)
    /\ ret' = Ret("delete_paper", arxiv_id, Ok(db', NoNum))
    /\ LET gone == {p.id : p \in {q \in db.papers : q.arxiv_id = arxiv_id}}
       IN  hist' = [hist EXCEPT
                       !.paper[arxiv_id] = <<>>,
                       !.link = {h \in @ : h.paper_id \notin gone},
                       !.rel = {h \in @ : h.source_paper_id \notin gone
                                           /\ h.target_paper_id \notin gone}]
    /\ UNCHANGED runVars

InitPapers ==
    /\ db = EmptyDb
    /\ ret = NoRet
    /\ hist = NoHist
    /\ RunIdle

NextPapers ==
    \/ \E paper_data \in PaperInputs \cup KeylessInputs : InsertPaper(paper_data)
    \/ \E arxiv_id \in ArxivIds : DeletePaper(arxiv_id)

SpecPapers == InitPapers /\ [][NextPapers]_vars

\* C1: after any sequence of insert_paper calls the store holds exactly one
\* row per identifier that was upserted, that row carries the title, abstract
\* and full text of the most recent call for the identifier, and
\* get_paper_by_arxiv_id returns that row; an identifier never upserted (or
\* deleted since) has no row.
C1_LastWriteWinsOneRow ==
    \A a \in ArxivIds :
        LET rows == {p \in db.papers : p.arxiv_id = a}
            got == get_paper_by_arxiv_id(db, a)
        IN  IF hist.paper[a] = <<>>
            THEN rows = {} /\ got = <<>>
            ELSE /\ Cardinality(rows) = 1
                 /\ got # <<>>
                 /\ got[1] \in rows
                 /\ got[1].title = hist.paper[a][1].title
                 /\ got[1].abstract = hist.paper[a][1].abstract
                 /\ got[1].full_text = hist.paper[a][1].full_text

\* C1 witness: P1 was stored without text and upserted again with text "hello".
C1_Witness ==
    /\ ret.op = "insert_paper" /\ ret.key = "P1" /\ ret.error = "none"
    /\ ret.result = Num(1)
    /\ db.papers_id_seq >= 2
    /\ hist.paper["P1"] # <<>>
    /\ hist.paper["P1"][1].full_text = "hello"
    /\ get_paper_by_arxiv_id(db, "P1")[1].full_text = "hello"

\* ------------------------------------------- store: concept and link calls

\* A caller runs insert_concept(name, concept_type, description).
InsertConcept(c) ==
    /\ db.concepts_id_seq < MaxConceptSeq
    /\ LET r == insert_concept(db, c.name, c.concept_type, c.description)
       IN  /\ db' = r.db
           /\ ret' = Ret("insert_concept", c.name, r)
           /\ hist' = IF r.error # "none" THEN hist
                       ELSE IF hist.concept[c.name] = <<>>
                       THEN [hist EXCEPT !.concept[c.name] =
                                <<[calls |-> 1, description |-> c.description,
                                   id |-> r.result]>>]
                       ELSE [hist EXCEPT !.concept[c.name][1].calls = @ + 1]
    /\ UNCHANGED runVars

\* A caller runs link_paper_concept(paper_id, concept_id, relevance_score, context).
LinkPaperConcept(l) ==
    /\ db.paper_concepts_id_seq < MaxLinkSeq
    /\ LET r == link_paper_concept(db, l.paper_id, l.concept_id, l.relevance_score, l.context)
       IN  /\ db' = r.db
           /\ ret' = Ret("link_paper_concept", <<l.paper_id, l.concept_id>>, r)
           /\ hist' = IF r.error = "none"
                          /\ ~(\E h \in hist.link :
                                  h.paper_id = l.paper_id /\ h.concept_id = l.concept_id)
                       THEN [hist EXCEPT !.link = @ \cup {l}]
                       ELSE hist
    /\ UNCHANGED runVars

InitConcepts == InitPapers

NextConcepts == \E c \in ConceptInputs : InsertConcept(c)

SpecConcepts == InitConcepts /\ [][NextConcepts]_vars

\* The store after the entity stage: both papers upserted as skeletons
\* (identities 1 and 2) and both concepts inserted once (identities 1 and 2).
StubOf(a) == CHOOSE paper_data \in StubInputs : paper_data.arxiv_id = a

PapersDb == insert_paper(insert_paper(EmptyDb, StubOf("P1")).db, StubOf("P2")).db

EntitiesDb ==
    insert_concept(insert_concept(PapersDb, "NeRF", "method", "first").db,
                   "3DGS", "method", NULL).db

StubFields == <<[title |-> "A", abstract |-> "", full_text |-> NULL]>>

PapersHist == [NoHist EXCEPT !.paper = [a \in ArxivIds |-> StubFields]]

EntitiesHist ==
    [PapersHist EXCEPT
        !.concept = [n \in ConceptNames |->
                        IF n = "NeRF"
                        THEN <<[calls |-> 1, description |-> "first", id |-> Num(1)]>>
                        ELSE <<[calls |-> 1, description |-> NULL, id |-> Num(2)]>>]]

InitLinks ==
    /\ db = EntitiesDb
    /\ ret = NoRet
    /\ hist = EntitiesHist
    /\ RunIdle

NextLinks ==
    \/ \E l \in LinkInputs : LinkPaperConcept(l)
    \/ \E arxiv_id \in ArxivIds : DeletePaper(arxiv_id)

SpecLinks == InitLinks /\ [][NextLinks]_vars

\* ------------------------------------------------ store: relationship calls

\* A caller runs insert_relationship(source, target, type, explanation, confidence).
InsertRelationship(a) ==
    /\ db.paper_relationships_id_seq < MaxRelSeq
    /\ LET r == insert_relationship(db, a.source_paper_id, a.target_paper_id,
                                    a.relationship_type, a.explanation, a.confidence)
       IN  /\ db' = r.db
           /\ ret' = Ret("insert_relationship",
                         <<a.source_paper_id, a.target_paper_id, a.relationship_type>>, r)
           /\ hist' = IF r.error = "none"
                       THEN [hist EXCEPT !.rel =
                                {h \in @ : ~SameTriple(h, a.source_paper_id,
                                                       a.target_paper_id, a.relationship_type)}
                                    \cup {a}]
                       ELSE hist
    /\ UNCHANGED runVars

\* A curator marks a stored edge as validated.
ValidateRelationship(id) ==
    /\ \E e \in db.paper_relationships : e.id = id /\ ~e.validated
    /\ db' = validate_relationship(db, id)
    /\ ret' = Ret("validate_relationship", Num(id), Ok(db', NoNum))
    /\ UNCHANGED <<hist, runVars>>

InitRels ==
    /\ db = PapersDb
    /\ ret = NoRet
    /\ hist = PapersHist
    /\ RunIdle

NextRels ==
    \/ \E a \in RelInputs : InsertRelationship(a)
    \/ \E id \in 1..MaxRelSeq : ValidateRelationship(id)
    \/ \E arxiv_id \in ArxivIds : DeletePaper(arxiv_id)

SpecRels == InitRels /\ [][NextRels]_vars

\* ------------------------------------------------ the run of process_papers

\* The store is reached over the network: a statement may fail before it runs
\* (OperationalError), leaving the store as it was.
Unavailable(d) == Fail(d, "operational_error")

\* continue / end of the loop body: on to the next paper, or return stats.
Advance ==
    /\ idx' = idx + 1
    /\ pc' = IF idx = Len(queue) THEN "done" ELSE "check"
    /\ local' = NoLocal

\* Between runs of process_papers a PDF is downloaded, replaced or removed.
DownloadPdf(a, file) ==
    /\ pc \in {"idle", "done", "raised"}
    /\ files[PdfPath(a)] # file
    /\ files' = [files EXCEPT ![PdfPath(a)] = file]
    /\ UNCHANGED <<db, ret, hist, pc, queue, idx, stats, local>>

\* main calls process_papers(db, papers_metadata): stats is initialised.  The
\* guard keeps the run within the sequences' bounds.
StartRun(papers_metadata) ==
    /\ pc \in {"idle", "done", "raised"}
    /\ db.papers_id_seq + Len(papers_metadata) <= MaxRunPaperSeq
    /\ db.extraction_logs_id_seq + Len(papers_metadata) <= MaxRunLogSeq
    /\ queue' = papers_metadata
    /\ idx' = 1
    /\ stats' = [ZeroStats EXCEPT !.total = Len(papers_metadata)]
    /\ local' = NoLocal
    /\ pc' = IF papers_metadata = <<>> THEN "done" ELSE "check"
    /\ ret' = NoRet
    /\ UNCHANGED <<db, hist, files>>

\* Lines 165-176: the entry's keys are read, the store is asked for the
\* paper, and a paper stored with text is skipped.  A missing key (KeyError)
\* or an unreachable store raises out of process_papers.
\* Variants: one never skips, one skips every stored paper, text or not.
skip_paper_never(existing) == FALSE

skip_paper_if_stored(existing) == existing # <<>>

\* A variant of the existence check that takes an empty full text for text.
skip_paper_any_text(existing) == existing # <<>> /\ existing[1].full_text # NULL

\* existing and existing.get('full_text')
skip_paper(existing) == existing # <<>> /\ Truthy(existing[1].full_text)

CheckExisting ==
    /\ pc = "check"
    /\ LET paper_meta == queue[idx]
       IN  IF paper_meta.arxiv_id = MISSING \/ paper_meta.title = MISSING
           THEN /\ pc' = "raised"
                /\ UNCHANGED <<db, ret, hist, queue, idx, stats, local, files>>
           ELSE \/ /\ pc' = "raised"
                   /\ ret' = Ret("get_paper_by_arxiv_id", paper_meta.arxiv_id,
                                 Unavailable(db))
                   /\ UNCHANGED <<db, hist, queue, idx, stats, local, files>>
                \/ /\ ret' = Ret("get_paper_by_arxiv_id", paper_meta.arxiv_id,
                                 Ok(db, NoNum))
                   /\ IF skip_paper(get_paper_by_arxiv_id(db, paper_meta.arxiv_id))
                      THEN /\ stats' = [stats EXCEPT !.skipped = @ + 1]
                           /\ Advance
                      ELSE /\ pc' = "artifact"
                           /\ UNCHANGED <<stats, idx, local>>
                   /\ UNCHANGED <<db, hist, queue, files>>

\* A variant that trusts the recorded path without looking at the disk.
artifact_missing_path_only(fs, pdf_path) == pdf_path = NULL

\* not pdf_path or not os.path.exists(pdf_path)
artifact_missing(fs, pdf_path) == ~Truthy(pdf_path) \/ ~os_path_exists(fs, pdf_path)

\* Lines 178-193: without a usable PDF the paper counts as failed_pdf and its
\* metadata is upserted with full_text "" (a rejected upsert counts as
\* failed_db); the loop continues.
FindArtifact ==
    /\ pc = "artifact"
    /\ LET paper_meta == queue[idx]
           pdf_path == get(paper_meta.local_pdf_path, NULL)
       IN  IF artifact_missing(files, pdf_path)
           THEN \E r \in {insert_paper(db, prepare_paper_data(paper_meta, "")),
                           Unavailable(db)} :
                    /\ db' = r.db
                    /\ ret' = Ret("insert_paper", paper_meta.arxiv_id, r)
                    /\ hist' = HistPaper(hist, prepare_paper_data(paper_meta, ""), r)
                    /\ stats' = [stats EXCEPT
                                    !.failed_pdf = @ + 1,
                                    !.failed_db = IF r.error = "none" THEN @ ELSE @ + 1]
                    /\ Advance
                    /\ UNCHANGED <<queue, files>>
           ELSE /\ pc' = "extract"
                /\ UNCHANGED <<db, ret, hist, queue, idx, stats, local, files>>

\* Lines 195-202: the text is extracted; without text the paper counts as
\* failed_pdf and the loop continues.
ExtractText ==
    /\ pc = "extract"
    /\ LET full_text == extract_text(files, queue[idx].local_pdf_path)
       IN  IF ~Truthy(full_text)
           THEN /\ stats' = [stats EXCEPT !.failed_pdf = @ + 1]
                /\ hist' = [hist EXCEPT !.retry = @ \cup {queue[idx].arxiv_id}]
                /\ Advance
                /\ UNCHANGED <<db, ret, queue, files>>
           ELSE /\ local' = [local EXCEPT !.full_text = full_text]
                /\ pc' = "insert"
                /\ UNCHANGED <<db, ret, hist, queue, idx, stats, files>>

\* Lines 209-216 and 226-228: the full record is upserted; a committed upsert
\* counts as successful, a rejected one as failed_db.
PersistPaper ==
    /\ pc = "insert"
    /\ LET paper_data == prepare_paper_data(queue[idx], local.full_text)
       IN  \E r \in {insert_paper(db, paper_data), Unavailable(db)} :
               /\ db' = r.db
               /\ ret' = Ret("insert_paper", paper_data.arxiv_id, r)
               /\ IF r.error = "none"
                  THEN /\ hist' = [HistPaper(hist, paper_data, r) EXCEPT
                                      !.retry = @ \ {paper_data.arxiv_id}]
                       /\ stats' = [stats EXCEPT !.successful = @ + 1]
                       /\ local' = [local EXCEPT !.paper_id = r.result]
                       /\ pc' = "log"
                       /\ UNCHANGED idx
                  ELSE /\ stats' = [stats EXCEPT !.failed_db = @ + 1]
                       /\ Advance
                       /\ UNCHANGED hist
               /\ UNCHANGED <<queue, files>>

\* Lines 218-228: the success is logged; a rejected log write counts as
\* failed_db.
LogSuccess ==
    /\ pc = "log"
    /\ \E r \in {log_extraction(db, local.paper_id, "pdf_extraction", "success", NULL, NoNum),
                  Unavailable(db)} :
           /\ db' = r.db
           /\ ret' = Ret("log_extraction", queue[idx].arxiv_id, r)
           /\ stats' = IF r.error = "none" THEN stats
                        ELSE [stats EXCEPT !.failed_db = @ + 1]
           /\ Advance
           /\ UNCHANGED <<hist, queue, files>>

InitIngest == InitPapers

NextIngest ==
    \/ \E a \in ArxivIds : \E file \in FileKinds(a) : DownloadPdf(a, file)
    \/ \E papers_metadata \in MetaLists : StartRun(papers_metadata)
    \/ CheckExisting
    \/ FindArtifact
    \/ ExtractText
    \/ PersistPaper
    \/ LogSuccess

SpecIngest == InitIngest /\ [][NextIngest]_vars

\* C2: for every concept name, the N committed insert_concept calls made with
\* it leave exactly one row, whose mention_count is N and whose description is
\* the one the first call passed, and every call returns the identity the
\* first call returned.
C2_MentionCount ==
    /\ \A n \in ConceptNames :
          LET rows == {c \in db.concepts : c.name = n}
          IN  IF hist.concept[n] = <<>>
              THEN rows = {}
              ELSE /\ Cardinality(rows) = 1
                   /\ \A c \in rows :
                         /\ c.mention_count = hist.concept[n][1].calls
                         /\ c.description = hist.concept[n][1].description
                         /\ Num(c.id) = hist.concept[n][1].id
    /\ (ret.op = "insert_concept" /\ ret.error = "none")
          => ret.result = hist.concept[ret.key][1].id

\* C2 witness: NeRF was inserted three times, the first time with description
\* "first".
C2_Witness ==
    /\ ret.op = "insert_concept" /\ ret.key = "NeRF" /\ ret.error = "none"
    /\ hist.concept["NeRF"] # <<>>
    /\ hist.concept["NeRF"][1].calls = 3
    /\ \E c \in db.concepts :
          c.name = "NeRF" /\ c.mention_count = 3 /\ c.description = "first"

\* C6, state part: every (paper, concept) pair linked by a committed call has
\* exactly one association edge, carrying the relevance and context of the
\* first such call; a pair never linked has none.
C6_OneEdgeFirstValues ==
    \A p \in PaperIds, c \in ConceptIds :
        LET edges == {l \in db.paper_concepts : l.paper_id = p /\ l.concept_id = c}
            firsts == {h \in hist.link : h.paper_id = p /\ h.concept_id = c}
        IN  IF firsts = {}
            THEN edges = {}
            ELSE /\ Cardinality(edges) = 1
                 /\ \A e \in edges, h \in firsts :
                       /\ e.relevance_score = h.relevance_score
                       /\ e.context = h.context

\* C6, step part: a call for a pair that is already linked (with a relevance
\* the schema admits) raises nothing and leaves the association table as it was.
C6_LaterCallIgnored ==
    \A l \in LinkInputs :
        (/\ LinkPaperConcept(l)
         /\ \E e \in db.paper_concepts :
               e.paper_id = l.paper_id /\ e.concept_id = l.concept_id
         /\ (IsNum(l.relevance_score) => Val(l.relevance_score) \in 0..10))
        => (ret'.error = "none" /\ db'.paper_concepts = db.paper_concepts)

\* C6: link_paper_concept is idempotent with first-write-wins: after any number
\* of calls for one (paper, concept) pair exactly one edge exists, with the
\* relevance and context of the first call, and later calls are ignored
\* without error.
C6_FirstWriteWins == []C6_OneEdgeFirstValues /\ [][C6_LaterCallIgnored]_vars

\* C6 witness: the pair (1, 1) was linked with relevance 0.5 and context "ctx",
\* and two later calls for it went through.
C6_Witness ==
    /\ ret.op = "link_paper_concept" /\ ret.key = <<1, 1>> /\ ret.error = "none"
    /\ db.paper_concepts_id_seq = 3
    /\ db.paper_concepts =
          {[id |-> 1, paper_id |-> 1, concept_id |-> 1,
            relevance_score |-> Num(5), context |-> "ctx"]}

\* A confidence that is present and lies outside [0, 1].
OutOfUnit(x) == x # NoNum /\ (x[1] < 0 \/ x[1] > 10)

\* C3, step part: an insert_relationship call with source equal to target, or
\* with a confidence outside [0, 1], raises and leaves the stored
\* relationships as they were.
C3_Rejects ==
    \A a \in RelInputs :
        (/\ InsertRelationship(a)
         /\ (a.source_paper_id = a.target_paper_id \/ OutOfUnit(a.confidence)))
        => (/\ ret'.error # "none"
            /\ ret'.result = NoNum
            /\ db'.paper_relationships = db.paper_relationships)

\* C3: every insert_relationship call with source equal to target, or with a
\* confidence outside [0, 1], fails with an error and leaves the set of stored
\* relationships unchanged, whether or not an edge with the same (source,
\* target, type) is already stored.
C3_InvalidRejected == [][C3_Rejects]_vars

\* C3 witness: a call for a triple that is already stored was rejected by a
\* CHECK constraint (its source differs from its target, so it was the
\* confidence that was out of range).
C3_Witness ==
    /\ ret.op = "insert_relationship" /\ ret.error = "check_violation"
    /\ \E e \in db.paper_relationships :
          SameTriple(e, ret.key[1], ret.key[2], ret.key[3])

\* C4, state part: every triple upserted by a committed call has exactly one
\* stored edge, with the explanation and confidence of the most recent such
\* call; a triple never upserted has none.
C4_OneEdgeLastValues ==
    \A s \in PaperIds, t \in PaperIds, y \in RelTypes :
        LET edges == {e \in db.paper_relationships : SameTriple(e, s, t, y)}
            lasts == {h \in hist.rel : SameTriple(h, s, t, y)}
        IN  IF lasts = {}
            THEN edges = {}
            ELSE /\ Cardinality(edges) = 1
                 /\ \A e \in edges, h \in lasts :
                       /\ e.explanation = h.explanation
                       /\ e.confidence = h.confidence

\* C4, step part: an upsert of one triple neither changes, removes nor adds an
\* edge of any other triple.
C4_OtherTriplesKept ==
    (/\ ret'.op = "insert_relationship"
     /\ db'.paper_relationships_id_seq # db.paper_relationships_id_seq) =>
        LET other(e) == ~SameTriple(e, ret'.key[1], ret'.key[2], ret'.key[3])
        IN  {e \in db'.paper_relationships : other(e)}
                = {e \in db.paper_relationships : other(e)}

\* C4: after any sequence of valid insert_relationship calls there is exactly
\* one stored edge per ordered triple (source, target, type), carrying the
\* explanation and confidence of the most recent call for the triple, and an
\* upsert of one triple changes no edge of another triple.
C4_OneEdgePerTriple == []C4_OneEdgeLastValues /\ [][C4_OtherTriplesKept]_vars

\* C4 witness: (1, 2, cites) was stored with confidence 0.9 and upserted again
\* with confidence 0.4 and explanation "updated"; one edge remains.
C4_Witness ==
    /\ ret.op = "insert_relationship" /\ ret.key = <<1, 2, "cites">>
    /\ ret.result = Num(1)
    /\ db.paper_relationships_id_seq = 2
    /\ Cardinality(db.paper_relationships) = 1
    /\ \E e \in db.paper_relationships :
          e.id = 1 /\ e.confidence = Num(4) /\ e.explanation = "updated"

\* C5, step part: a committed insert_relationship call for a triple that is
\* already stored returns the stored edge's identity and leaves the edge as
\* it was but for explanation and confidence.
C5_OverwriteKeeps ==
    \A e \in db.paper_relationships :
        (/\ ret'.op = "insert_relationship" /\ ret'.error = "none"
         /\ db'.paper_relationships_id_seq # db.paper_relationships_id_seq
         /\ SameTriple(e, ret'.key[1], ret'.key[2], ret'.key[3]))
        => (/\ ret'.result = Num(e.id)
            /\ \E f \in db'.paper_relationships :
                  /\ f.id = e.id
                  /\ f.validated = e.validated
                  /\ f = [e EXCEPT !.explanation = f.explanation,
                                   !.confidence = f.confidence]
            /\ Cardinality(db'.paper_relationships) = Cardinality(db.paper_relationships))

\* C5: when insert_relationship overwrites an existing edge (same source,
\* target, type) the edge's validated flag and identity are unchanged and the
\* call returns the existing identity; only explanation and confidence change.
C5_ValidatedIdentityKept == [][C5_OverwriteKeeps]_vars

\* C5 witness: a validated edge was overwritten: the call returned identity 1
\* although the sequence had moved on, and the edge is still validated.
C5_Witness ==
    /\ ret.op = "insert_relationship" /\ ret.error = "none"
    /\ ret.result = Num(1)
    /\ db.paper_relationships_id_seq = 2
    /\ \E e \in db.paper_relationships :
          e.id = 1 /\ e.validated /\ e.explanation = "updated"

\* ------------------------------------------- claims on process_papers' run

\* The store holds the identifier with non-empty full text.
StoredWithText(d, arxiv_id) ==
    \E p \in d.papers : p.arxiv_id = arxiv_id /\ Truthy(p.full_text)

\* The entry under the loop has the keys lines 165-166 read.
WellFormed(paper_meta) == paper_meta.arxiv_id # MISSING /\ paper_meta.title # MISSING

\* The loop has gone on to the next entry, or returned after the last one.
Continued ==
    /\ idx' = idx + 1
    /\ pc' = IF idx = Len(queue) THEN "done" ELSE "check"
    /\ queue' = queue

\* C7: when the existence check of process_papers finds the identifier already
\* stored with non-empty full text, the paper is skipped: the step makes no
\* call but the lookup, never goes on to the artifact or to text extraction,
\* leaves the store and the files as they were, adds one to skipped and
\* changes no other counter, and the loop continues.
C7_SkipStep ==
    (/\ pc = "check"
     /\ WellFormed(queue[idx])
     /\ StoredWithText(db, queue[idx].arxiv_id)
     /\ ret'.error = "none")
        => /\ db' = db
           /\ files' = files
           /\ stats' = [stats EXCEPT !.skipped = @ + 1]
           /\ ret'.op = "get_paper_by_arxiv_id"
           /\ pc' \notin {"artifact", "extract", "insert", "log"}
           /\ Continued

C7_StoredWithTextSkipped == [][C7_SkipStep]_vars

\* A paper stored with its text by a run has been met again and skipped.
C7_Witness ==
    /\ stats.skipped >= 1
    /\ ret.op = "get_paper_by_arxiv_id"
    /\ pc \in {"check", "done"}
    /\ StoredWithText(db, queue[idx - 1].arxiv_id)

\* The artifact step finds no path or no file for a paper not stored with text.
C8_NoArtifact ==
    /\ pc = "artifact"
    /\ ~StoredWithText(db, queue[idx].arxiv_id)
    /\ \/ ~Truthy(queue[idx].local_pdf_path)
       \/ ~os_path_exists(files, queue[idx].local_pdf_path)

\* The store holds exactly one record of the entry, without full text.
C8_Skeleton(d, paper_meta) ==
    /\ Cardinality({p \in d.papers : p.arxiv_id = paper_meta.arxiv_id}) = 1
    /\ \A p \in d.papers :
           p.arxiv_id = paper_meta.arxiv_id
               => /\ p.full_text = ""
                  /\ p.title = paper_meta.title
                  /\ p.abstract = paper_meta.abstract

\* C8 as stated: a paper without artifact path or artifact file always ends
\* the step with a skeleton record in the store, and the run continues.
C8_AlwaysSkeletonStep ==
    C8_NoArtifact => /\ C8_Skeleton(db', queue[idx])
                     /\ Continued

C8_FallbackStep ==
    C8_NoArtifact
        => /\ Continued
           /\ ret'.op = "insert_paper"
           /\ db'.extraction_logs = db.extraction_logs
           /\ {p \in db'.papers : p.arxiv_id # queue[idx].arxiv_id}
                 = {p \in db.papers : p.arxiv_id # queue[idx].arxiv_id}
           /\ IF ret'.error = "none"
              THEN /\ C8_Skeleton(db', queue[idx])
                   /\ stats' = [stats EXCEPT !.failed_pdf = @ + 1]
              ELSE /\ db'.papers = db.papers
                   /\ stats' = [stats EXCEPT !.failed_pdf = @ + 1, !.failed_db = @ + 1]

LogsOf(d, id) == {l \in d.extraction_logs : l.paper_id = Num(id)}

\* The identity of the stored paper with the identifier.
IdOf(d, arxiv_id) == (CHOOSE p \in d.papers : p.arxiv_id = arxiv_id).id

\* The text handed to the upsert is the non-empty text extracted from the
\* paper's artifact.
C9_TextExtracted ==
    pc = "insert"
        => /\ Truthy(local.full_text)
           /\ local.full_text = extract_text(files, queue[idx].local_pdf_path)

\* After a committed upsert of the extracted text the paper is stored with
\* that text under the returned identity, successful grows by one and the
\* success is logged next.
C9_PersistStep ==
    (pc = "insert" /\ ret'.error = "none")
        => /\ \E p \in db'.papers :
                  /\ p.arxiv_id = queue[idx].arxiv_id
                  /\ p.full_text = local.full_text
                  /\ Num(p.id) = ret'.result
                  /\ local'.paper_id = ret'.result
           /\ Cardinality({p \in db'.papers : p.arxiv_id = queue[idx].arxiv_id}) = 1
           /\ stats' = [stats EXCEPT !.successful = @ + 1]
           /\ db'.extraction_logs = db.extraction_logs
           /\ pc' = "log"

\* The step appends exactly one audit row, about the paper just stored, with
\* status success and stage pdf_extraction.
C9_OneRowAppended ==
    LET id == IdOf(db, queue[idx].arxiv_id)
        added == db'.extraction_logs \ db.extraction_logs
    IN  /\ db.extraction_logs \subseteq db'.extraction_logs
        /\ Cardinality(added) = 1
        /\ added \subseteq LogsOf(db', id)
        /\ \A l \in added : l.status = "success" /\ l.stage = "pdf_extraction"

\* C9 as stated: once the upsert of the extracted text has succeeded, the
\* paper is stored with the text, successful has grown by one and exactly one
\* success row about the paper is appended to the audit log.
C9_AlwaysLoggedStep ==
    /\ C9_PersistStep
    /\ pc = "log" => C9_OneRowAppended

C9_LogStep ==
    pc = "log"
        => /\ db'.papers = db.papers
           /\ StoredWithText(db, queue[idx].arxiv_id)
           /\ local.paper_id = Num(IdOf(db, queue[idx].arxiv_id))
           /\ Continued
           /\ IF ret'.error = "none"
              THEN /\ C9_OneRowAppended
                   /\ stats' = stats
              ELSE /\ db'.extraction_logs = db.extraction_logs
                   /\ stats' = [stats EXCEPT !.failed_db = @ + 1]

C10_ExtractionFails ==
    /\ pc = "extract"
    /\ ~Truthy(extract_text(files, queue[idx].local_pdf_path))

\* C10 as stated: after a failed extraction the store holds a record of the
\* paper without full text.
C10_LeavesSkeletonStep ==
    C10_ExtractionFails
        => /\ Continued
           /\ \E p \in db'.papers :
                  p.arxiv_id = queue[idx].arxiv_id /\ ~Truthy(p.full_text)

C10_FailStep ==
    C10_ExtractionFails
        => /\ Continued
           /\ db' = db
           /\ stats' = [stats EXCEPT !.failed_pdf = @ + 1]
           /\ queue[idx].arxiv_id \in hist'.retry

\* No paper whose extraction failed is stored with text, unless a later
\* extraction succeeded.
C10_NoTextStored == \A a \in hist.retry : ~StoredWithText(db, a)

\* A later check of such a paper does not skip it, and with the artifact
\* present extraction is attempted again.
C10_RetryStep ==
    /\ (/\ pc = "check"
        /\ WellFormed(queue[idx])
        /\ queue[idx].arxiv_id \in hist.retry
        /\ ret'.error = "none")
           => /\ pc' = "artifact"
              /\ stats' = stats
              /\ idx' = idx
    /\ (/\ pc = "artifact"
        /\ queue[idx].arxiv_id \in hist.retry
        /\ Truthy(queue[idx].local_pdf_path)
        /\ os_path_exists(files, queue[idx].local_pdf_path))
           => /\ pc' = "extract"
              /\ stats' = stats
              /\ idx' = idx

PaperHandled == pc \in {"check", "artifact", "extract", "insert", "log"} /\ idx' = idx + 1

\* C11: every paper handled by a run, whatever its outcome (skipped, artifact
\* failed, extraction failed, persisted), adds exactly one row to the audit
\* log.
C11_OneRowStep ==
    PaperHandled
        => /\ db.extraction_logs \subseteq db'.extraction_logs
           /\ Cardinality(db'.extraction_logs \ db.extraction_logs) = 1

C11_OneRowPerPaper == [][C11_OneRowStep]_vars

\* A run has handled a paper without artifact and returned, and the audit log
\* is empty.
C11_Witness ==
    /\ pc = "done"
    /\ stats.total >= 1
    /\ stats.failed_pdf = stats.total
    /\ db.papers # {}
    /\ db.extraction_logs = {}

\* The step counts a failure of the paper under the loop.
FailureCounted ==
    \/ stats'.failed_pdf = stats.failed_pdf + 1
    \/ stats'.failed_db = stats.failed_db + 1

\* C12: every per-paper failure in a run (missing artifact, failed or empty
\* text extraction, rejected store write) is recorded as a new audit row with
\* status failed.
C12_FailureStep ==
    (pc \in {"artifact", "extract", "insert", "log"} /\ FailureCounted)
        => \E l \in db'.extraction_logs \ db.extraction_logs : l.status = "failed"

C12_FailuresLogged == [][C12_FailureStep]_vars

\* A text extraction has failed and been counted, and the audit log holds no
\* row with status failed.
C12_Witness ==
    /\ hist.retry # {}
    /\ stats.failed_pdf >= 1
    /\ pc \in {"check", "done"}
    /\ \A l \in db.extraction_logs : l.status # "failed"

\* C13: a run of process_papers handles every paper of its list in order and
\* returns its summary: no failure on one paper (missing artifact, extraction
\* failure, rejected store write, metadata entry with a missing field) makes
\* it raise; it stops early only when the store cannot be reached for the
\* existence check.
C13_HandledStep ==
    /\ (pc \in {"check", "artifact", "extract", "insert", "log"} /\ pc' = "raised")
           => (ret'.op = "get_paper_by_arxiv_id" /\ ret'.error = "operational_error")
    /\ (pc = "check" /\ ~WellFormed(queue[idx]))
           => Continued

C13_NeverAborts == [][C13_HandledStep]_vars

\* The run has raised on an entry without title and left the entries after it
\* unhandled.
C13_Witness ==
    /\ pc = "raised"
    /\ ~WellFormed(queue[idx])
    /\ idx < Len(queue)
    /\ stats.successful + stats.failed_pdf + stats.skipped = idx - 1

\* ------------------------------------------- one run over a list of papers

\* Longest papers_metadata list of the single-run scenarios.
MaxBatch == 3

BatchIds == ArxivIds \cup {"P3"}

BatchPaths == {PdfPath(a) : a \in BatchIds}

\* Entries as fetch_papers writes them after a download.
BatchEntry(a) == MetaOf(a, "A", PdfPath(a))

BatchEntries == {BatchEntry(a) : a \in BatchIds}

BatchLists == SeqsUpTo(BatchEntries, MaxBatch)

\* papers/pdfs at the start of the run: P1's PDF is sound, P2's may be
\* unreadable, P3's may be missing.
BatchFiles ==
    {[path \in BatchPaths |->
        IF path = PdfPath("P1") THEN Pdf(<<"hello">>)
        ELSE IF path = PdfPath("P2") THEN f2
        ELSE f3] : f2 \in {Pdf(<<"world">>), Unreadable}, f3 \in {NoFile, Pdf(<<"three">>)}}

\* The store after an earlier run ingested P1 from its PDF.
IngestedDb(fs) ==
    LET paper_data == prepare_paper_data(BatchEntry("P1"), extract_text(fs, PdfPath("P1")))
        r == insert_paper(EmptyDb, paper_data)
    IN  log_extraction(r.db, r.result, "pdf_extraction", "success", NULL, NoNum).db

\* The same store after that run also found no PDF for P3 and upserted its
\* metadata only.
IngestedAndSkeletonDb(fs) ==
    insert_paper(IngestedDb(fs), prepare_paper_data(BatchEntry("P3"), "")).db

\* The history of a store as the run finds it; db0 keeps the store as it was
\* when the run started.
BatchHist(d) ==
    [paper |-> [a \in BatchIds |->
                   IF HasPaper(d, a)
                   THEN <<[title |-> PaperRow(d, a).title,
                           abstract |-> PaperRow(d, a).abstract,
                           full_text |-> PaperRow(d, a).full_text]>>
                   ELSE <<>>],
     concept |-> NoHist.concept,
     link |-> {},
     rel |-> {},
     retry |-> {},
     db0 |-> d]

\* main calls process_papers(db, papers_metadata) once.
StartBatch(papers_metadata) ==
    /\ pc = "idle"
    /\ queue' = papers_metadata
    /\ idx' = 1
    /\ stats' = [ZeroStats EXCEPT !.total = Len(papers_metadata)]
    /\ local' = NoLocal
    /\ pc' = IF papers_metadata = <<>> THEN "done" ELSE "check"
    /\ ret' = NoRet
    /\ UNCHANGED <<db, hist, files>>

InitBatch ==
    /\ files \in BatchFiles
    /\ db \in {EmptyDb, IngestedDb(files), IngestedAndSkeletonDb(files)}
    /\ hist = BatchHist(db)
    /\ ret = NoRet
    /\ pc = "idle"
    /\ queue = <<>>
    /\ idx = 0
    /\ stats = ZeroStats
    /\ local = NoLocal

NextBatch ==
    \/ \E papers_metadata \in BatchLists : StartBatch(papers_metadata)
    \/ CheckExisting
    \/ FindArtifact
    \/ ExtractText
    \/ PersistPaper
    \/ LogSuccess

SpecBatch == InitBatch /\ [][NextBatch]_vars

\* No identifier occurs twice in the list.
Distinct(papers_metadata) ==
    \A i, j \in 1..Len(papers_metadata) :
        i # j => papers_metadata[i].arxiv_id # papers_metadata[j].arxiv_id

\* The entry's artifact is on disk and yields text.
Usable(fs, paper_meta) ==
    /\ Truthy(paper_meta.local_pdf_path)
    /\ os_path_exists(fs, paper_meta.local_pdf_path)
    /\ Truthy(extract_text(fs, paper_meta.local_pdf_path))

\* The positions of the list whose paper was complete in the store when the
\* run started, had no usable artifact, or was ingested by the run.
AlreadyComplete ==
    {i \in 1..Len(queue) : StoredWithText(hist.db0, queue[i].arxiv_id)}

WithoutArtifact ==
    {i \in 1..Len(queue) \ AlreadyComplete : ~Usable(files, queue[i])}

FullyIngested ==
    {i \in 1..Len(queue) \ AlreadyComplete :
        /\ Usable(files, queue[i])
        /\ \E p \in db.papers :
               /\ p.arxiv_id = queue[i].arxiv_id
               /\ p.full_text = extract_text(files, queue[i].local_pdf_path)}

\* C14: the summary a run of process_papers returns has total equal to the
\* number of input papers, and (the input naming each paper once) skipped,
\* failed_pdf and successful equal to the number of input papers that were
\* already complete in the store, without a usable artifact, and fully
\* ingested.
C14_SummaryCounts ==
    pc = "done"
        => /\ stats.total = Len(queue)
           /\ Distinct(queue)
                  => /\ stats.skipped = Cardinality(AlreadyComplete)
                     /\ stats.failed_pdf = Cardinality(WithoutArtifact)
                     /\ stats.successful = Cardinality(FullyIngested)

\* A run over one complete paper, one paper without artifact and one paper
\* that is ingested has returned skipped = 1, failed_pdf = 1, successful = 1.
C14_Witness ==
    /\ pc = "done"
    /\ Len(queue) = 3
    /\ Distinct(queue)
    /\ Cardinality(AlreadyComplete) = 1
    /\ Cardinality(WithoutArtifact) = 1
    /\ Cardinality(FullyIngested) = 1
    /\ stats.skipped = 1
    /\ stats.failed_pdf = 1
    /\ stats.successful = 1

\* ---------------------------------------------------- the discovery scripts

\* Longest citations list Semantic Scholar returns.
MaxCitations == 2

\* max_papers of get_citing_papers_from_semantic_scholar (70 in main).
MaxNewPapers == 2

\* "2308.04079"
SeminalId == "P1"

\* "papers/metadata/papers_metadata.json"
MetadataPath == "papers/metadata/papers_metadata.json"

\* The metadata file holding the list of entries json.dump wrote.
Json(papers) == [exists |-> TRUE, readable |-> TRUE, papers |-> papers]

\* The PDF a download leaves on disk.
DownloadedPdf == Pdf(<<"hello">>)

\* The arXiv identifiers of a list of entries.
IdsOf(papers) == {papers[i].arxiv_id : i \in 1..Len(papers)}

\* A variant that keeps a list instead of a dict: every assignment appends.
dict_set_appends(papers, paper) == Append(papers, paper)

\* existing_papers[paper['arxiv_id']] = paper on a dict kept in insertion
\* order: an existing key keeps its place.
dict_set(papers, paper) ==
    IF paper.arxiv_id \in IdsOf(papers)
    THEN [i \in 1..Len(papers) |->
            IF papers[i].arxiv_id = paper.arxiv_id THEN paper ELSE papers[i]]
    ELSE Append(papers, paper)

RECURSIVE dict_of(_, _)
dict_of(papers, i) ==
    IF i = 0 THEN <<>> ELSE dict_set(dict_of(papers, i - 1), papers[i])

\* load_existing_papers: the snapshot keyed by arxiv_id, or {} without file.
load_existing_papers(fs) ==
    IF fs[MetadataPath].exists
    THEN dict_of(fs[MetadataPath].papers, Len(fs[MetadataPath].papers))
    ELSE <<>>

\* save_papers_metadata / json.dump(all_papers, f)
save_papers_metadata(fs, papers) == [fs EXCEPT ![MetadataPath] = Json(papers)]

\* A variant that collects every citing paper with an ArXiv id.
RECURSIVE collect_unfiltered(_, _, _, _, _)
collect_unfiltered(citations, i, max_papers, existing_papers, citing_papers) ==
    IF i > Len(citations) \/ Len(citing_papers) >= max_papers
    THEN citing_papers
    ELSE IF citations[i] = NULL
    THEN collect_unfiltered(citations, i + 1, max_papers, existing_papers, citing_papers)
    ELSE collect_unfiltered(citations, i + 1, max_papers, existing_papers,
                            Append(citing_papers, MetaOf(citations[i], "A", NULL)))

\* The loop over the citations: entries without ArXiv id and entries already
\* in existing_papers are passed over, until max_papers are collected.
RECURSIVE collect_citing(_, _, _, _, _)
collect_citing(citations, i, max_papers, existing_papers, citing_papers) ==
    IF i > Len(citations) \/ Len(citing_papers) >= max_papers
    THEN citing_papers
    ELSE IF citations[i] = NULL
    THEN collect_citing(citations, i + 1, max_papers, existing_papers, citing_papers)
    ELSE IF citations[i] \in IdsOf(existing_papers)
    THEN collect_citing(citations, i + 1, max_papers, existing_papers, citing_papers)
    ELSE collect_citing(citations, i + 1, max_papers, existing_papers,
                        Append(citing_papers, MetaOf(citations[i], "A", NULL)))

get_citing_papers_unfiltered(citations, max_papers, existing_papers) ==
    collect_unfiltered(citations, 1, max_papers, existing_papers, <<>>)

get_citing_papers_from_semantic_scholar(citations, max_papers, existing_papers) ==
    collect_citing(citations, 1, max_papers, existing_papers, <<>>)

\* What the citations endpoint may return: citing papers by ArXiv id, NULL
\* for a paper without one.
Citations == SeqsUpTo(BatchIds \cup {NULL}, MaxCitations)

\* recorded: the identifiers in the snapshot when the running script started;
\* queued: the identifiers it has handed to PDF download since.
DiscoverHist == [NoHist EXCEPT !.retry = {}] @@ [recorded |-> {}, queued |-> {}]

NoScript == NoLocal

\* fetch_citing_papers.main starts: existing_papers is loaded from the file.
FcStart ==
    /\ pc = "idle"
    /\ local' = [existing_papers |-> load_existing_papers(files),
                 citations |-> <<>>,
                 citing_papers |-> <<>>,
                 i |-> 0]
    /\ hist' = [hist EXCEPT
                   !.recorded = IF files[MetadataPath].exists
                                THEN IdsOf(files[MetadataPath].papers)
                                ELSE {},
                   !.queued = {}]
    /\ pc' = "fc_seminal"
    /\ UNCHANGED <<db, ret, queue, idx, stats, files>>

\* fetch_seminal_paper(existing_papers) and lines 362-364: a known seminal
\* paper is returned as it is; otherwise it is fetched and its PDF
\* downloaded, or arXiv fails and the script ends with the exception.
FcSeminal ==
    /\ pc = "fc_seminal"
    /\ IF SeminalId \in IdsOf(local.existing_papers)
       THEN /\ pc' = "fc_citing"
            /\ UNCHANGED <<local, hist, files>>
       ELSE \/ /\ pc' = "idle"
               /\ local' = NoScript
               /\ UNCHANGED <<hist, files>>
            \/ \E downloaded \in BOOLEAN :
                   /\ files' = IF downloaded
                               THEN [files EXCEPT ![PdfPath(SeminalId)] = DownloadedPdf]
                               ELSE files
                   /\ local' = [local EXCEPT !.existing_papers =
                                   dict_set(@, MetaOf(SeminalId, "A",
                                       IF downloaded THEN PdfPath(SeminalId) ELSE NULL))]
                   /\ hist' = [hist EXCEPT !.queued = @ \cup {SeminalId}]
                   /\ pc' = "fc_citing"
    /\ UNCHANGED <<db, ret, queue, idx, stats>>

\* Lines 368-378: the citing papers not yet known, or none when the request
\* fails.
FcCiting(citations) ==
    /\ pc = "fc_citing"
    /\ \E citing_papers \in
            {get_citing_papers_from_semantic_scholar(citations, MaxNewPapers,
                                                     local.existing_papers), <<>>} :
           /\ local' = [local EXCEPT !.citations = citations,
                                     !.citing_papers = citing_papers]
           /\ pc' = IF citing_papers # <<>> THEN "fc_confirm" ELSE "fc_save"
    /\ UNCHANGED <<db, ret, hist, queue, idx, stats, files>>

\* Lines 383-396: on "yes" the new papers go to download_pdfs_batch; on "no"
\* they are dropped.
FcConfirm(yes) ==
    /\ pc = "fc_confirm"
    /\ IF yes
       THEN /\ pc' = "fc_download"
            /\ local' = [local EXCEPT !.i = 1]
            /\ hist' = [hist EXCEPT !.queued = @ \cup IdsOf(local.citing_papers)]
       ELSE /\ pc' = "fc_save"
            /\ UNCHANGED <<local, hist>>
    /\ UNCHANGED <<db, ret, queue, idx, stats, files>>

\* download_paper_pdf(arxiv_id, paper_data): a PDF already on disk is taken
\* as it is; otherwise it is downloaded, or the download fails and the entry
\* keeps local_pdf_path None.
download_paper_pdf(fs, paper_data, succeeds) ==
    LET pdf_path == PdfPath(paper_data.arxiv_id)
    IN  IF fs[pdf_path].exists
        THEN [fs |-> fs, paper_data |-> [paper_data EXCEPT !.local_pdf_path = pdf_path]]
        ELSE IF succeeds
        THEN [fs |-> [fs EXCEPT ![pdf_path] = DownloadedPdf],
              paper_data |-> [paper_data EXCEPT !.local_pdf_path = pdf_path]]
        ELSE [fs |-> fs, paper_data |-> paper_data]

RECURSIVE dict_update(_, _, _)
dict_update(existing_papers, papers, i) ==
    IF i > Len(papers) THEN existing_papers
    ELSE dict_update(dict_set(existing_papers, papers[i]), papers, i + 1)

\* One iteration of download_pdfs_batch; after the last one the new papers
\* are added to existing_papers (lines 393-394).
FcDownload ==
    /\ pc = "fc_download"
    /\ \E succeeds \in BOOLEAN :
           LET r == download_paper_pdf(files, local.citing_papers[local.i], succeeds)
               citing_papers == [local.citing_papers EXCEPT ![local.i] = r.paper_data]
           IN  /\ files' = r.fs
               /\ IF local.i < Len(citing_papers)
                  THEN /\ local' = [local EXCEPT !.citing_papers = citing_papers,
                                                 !.i = @ + 1]
                       /\ pc' = "fc_download"
                  ELSE /\ local' = [local EXCEPT
                                       !.citing_papers = citing_papers,
                                       !.existing_papers = dict_update(@, citing_papers, 1)]
                       /\ pc' = "fc_save"
    /\ UNCHANGED <<db, ret, hist, queue, idx, stats>>

\* Lines 398-401: all papers, old and new, are written to the file.
FcSave ==
    /\ pc = "fc_save"
    /\ files' = save_papers_metadata(files, local.existing_papers)
    /\ pc' = "idle"
    /\ local' = NoScript
    /\ UNCHANGED <<db, ret, hist, queue, idx, stats>>

\* The entries fetch_papers collects: the seminal paper, then the search
\* results not seen before in this execution, each with the path of its PDF
\* when the download succeeded.
RECURSIVE fetched_papers(_, _, _)
fetched_papers(results, i, failed) ==
    IF i = 0 THEN <<>>
    ELSE LET all_papers == fetched_papers(results, i - 1, failed)
         IN  IF results[i] \in IdsOf(all_papers)
             THEN all_papers
             ELSE Append(all_papers,
                         MetaOf(results[i], "A",
                                IF results[i] \in failed THEN NULL ELSE PdfPath(results[i])))

\* fetch_papers.main, start to end: every paper found is downloaded and the
\* file is written anew.
FetchPapers(results, failed) ==
    /\ pc = "idle"
    /\ LET all_papers == fetched_papers(<<SeminalId>> \o results, Len(results) + 1, failed)
       IN  /\ files' = save_papers_metadata(
                          [path \in DOMAIN files |->
                              IF \E a \in IdsOf(all_papers) \ failed : path = PdfPath(a)
                              THEN DownloadedPdf
                              ELSE files[path]],
                          all_papers)
           /\ hist' = [hist EXCEPT
                          !.recorded = IF files[MetadataPath].exists
                                       THEN IdsOf(files[MetadataPath].papers)
                                       ELSE {},
                          !.queued = IdsOf(all_papers)]
    /\ UNCHANGED <<db, ret, pc, queue, idx, stats, local>>

SearchResults == SeqsUpTo(BatchIds \ {SeminalId}, MaxCitations)

InitDiscover ==
    /\ db = EmptyDb
    /\ ret = NoRet
    /\ hist = DiscoverHist
    /\ pc = "idle"
    /\ queue = <<>>
    /\ idx = 0
    /\ stats = ZeroStats
    /\ local = NoScript
    /\ files = [path \in BatchPaths \cup {MetadataPath} |-> NoFile]

NextDiscover ==
    \/ FcStart
    \/ FcSeminal
    \/ \E citations \in Citations : FcCiting(citations)
    \/ \E yes \in BOOLEAN : FcConfirm(yes)
    \/ FcDownload
    \/ FcSave
    \/ \E results \in SearchResults :
           \E failed \in SUBSET ({SeminalId} \cup {results[i] : i \in 1..Len(results)}) :
               FetchPapers(results, failed)

SpecDiscover == InitDiscover /\ [][NextDiscover]_vars

\* C15: get_citing_papers_from_semantic_scholar returns no paper whose
\* identifier is in existing_papers, so the identifiers handed to PDF
\* download are all absent from the known set (the persisted snapshot and the
\* seminal paper).
C15_NoneKnown ==
    pc \in {"fc_confirm", "fc_download"}
        => /\ IdsOf(local.citing_papers) \cap IdsOf(local.existing_papers) = {}
           /\ IdsOf(local.citing_papers) \cap hist.recorded = {}

C15_QueuedStep ==
    (pc = "fc_confirm" /\ pc' = "fc_download")
        => /\ hist'.queued \ hist.queued = IdsOf(local.citing_papers)
           /\ (hist'.queued \ hist.queued) \cap IdsOf(local.existing_papers) = {}

C15_KnownNeverQueued == []C15_NoneKnown /\ [][C15_QueuedStep]_vars

\* Semantic Scholar has returned a paper that is in the snapshot together
\* with a new one, and the new one is being downloaded.
C15_Witness ==
    /\ pc = "fc_download"
    /\ \E i \in 1..Len(local.citations) :
           /\ local.citations[i] \in hist.recorded
           /\ local.citations[i] # SeminalId
    /\ local.citing_papers # <<>>

\* C16: across executions of the discovery scripts, an identifier recorded in
\* the persisted metadata snapshot by an earlier execution is not queued for
\* artifact acquisition again by a later one.
C16_RecordedNeverQueued == hist.queued \cap hist.recorded = {}

\* An execution has ended having downloaded again a citing paper that the
\* snapshot it started from already recorded with its PDF.
C16_Witness ==
    /\ pc = "idle"
    /\ \E a \in (hist.queued \cap hist.recorded) \ {SeminalId} :
           /\ files[PdfPath(a)].exists
           /\ a \in IdsOf(files[MetadataPath].papers)

\* C17: an insert_paper call for an identifier that is already stored leaves
\* the row's identity, authors, publication date and creation timestamp (and
\* its PDF path and seminal flag) as they were, overwrites title, abstract
\* and full text with the values passed, returns the existing identity, and
\* touches no other row.
C17_ExistingKeptStep ==
    (/\ ret'.op = "insert_paper"
     /\ ret'.error = "none"
     /\ db'.papers_id_seq = db.papers_id_seq + 1
     /\ HasPaper(db, ret'.key))
        => LET old == PaperRow(db, ret'.key)
               new == PaperRow(db', ret'.key)
               passed == hist'.paper[ret'.key][1]
           IN  /\ db'.papers \ {new} = db.papers \ {old}
               /\ new.id = old.id
               /\ ret'.result = Num(old.id)
               /\ new.authors = old.authors
               /\ new.published_date = old.published_date
               /\ new.processed_at = old.processed_at
               /\ new.pdf_path = old.pdf_path
               /\ new.is_seminal = old.is_seminal
               /\ new.title = passed.title
               /\ new.abstract = passed.abstract
               /\ new.full_text = passed.full_text

C17_OnlyTextFieldsOverwritten == [][C17_ExistingKeptStep]_vars

\* P1 was stored with authors and date, then upserted again with the version
\* that has neither: the abstract is the second call's, authors and date are
\* the first call's.
C17_Witness ==
    /\ ret.op = "insert_paper" /\ ret.key = "P1" /\ ret.error = "none"
    /\ ret.result = Num(1)
    /\ HasPaper(db, "P1")
    /\ PaperRow(db, "P1").abstract = ""
    /\ PaperRow(db, "P1").authors = <<"author">>
    /\ PaperRow(db, "P1").published_date = "2023-08-04"
    /\ PaperRow(db, "P1").processed_at = Now(0)

\* ------------------------------------------- interrupted and restarted runs

\* process_papers from entry i on, start to end, when the store accepts every
\* statement: the store it leaves.
RECURSIVE run_papers(_, _, _, _)
run_papers(d, fs, papers_metadata, i) ==
    IF i > Len(papers_metadata)
    THEN d
    ELSE LET paper_meta == papers_metadata[i]
             pdf_path == get(paper_meta.local_pdf_path, NULL)
         IN  IF skip_paper(get_paper_by_arxiv_id(d, paper_meta.arxiv_id))
             THEN run_papers(d, fs, papers_metadata, i + 1)
             ELSE IF artifact_missing(fs, pdf_path)
             THEN run_papers(insert_paper(d, prepare_paper_data(paper_meta, "")).db,
                             fs, papers_metadata, i + 1)
             ELSE IF ~Truthy(extract_text(fs, pdf_path))
             THEN run_papers(d, fs, papers_metadata, i + 1)
             ELSE LET r == insert_paper(d, prepare_paper_data(paper_meta,
                                                              extract_text(fs, pdf_path)))
                  IN  run_papers(log_extraction(r.db, r.result, "pdf_extraction",
                                                "success", NULL, NoNum).db,
                                 fs, papers_metadata, i + 1)

\* Most interruptions of one input's processing.
MaxInterrupts == 1

\* interrupts: how often the processing of the input was interrupted.
ResumeHist(d) == BatchHist(d) @@ [interrupts |-> 0]

\* The process is killed between two papers of the list.
Interrupt ==
    /\ pc = "check"
    /\ idx >= 2
    /\ hist.interrupts < MaxInterrupts
    /\ pc' = "interrupted"
    /\ hist' = [hist EXCEPT !.interrupts = @ + 1]
    /\ UNCHANGED <<db, ret, queue, idx, stats, local, files>>

\* main is started again over the same papers_metadata.json.
Resume ==
    /\ pc = "interrupted"
    /\ idx' = 1
    /\ stats' = [ZeroStats EXCEPT !.total = Len(queue)]
    /\ local' = NoLocal
    /\ pc' = "check"
    /\ ret' = NoRet
    /\ UNCHANGED <<db, hist, queue, files>>

InitResume ==
    /\ files \in BatchFiles
    /\ db \in {EmptyDb, IngestedDb(files)}
    /\ hist = ResumeHist(db)
    /\ ret = NoRet
    /\ pc = "idle"
    /\ queue = <<>>
    /\ idx = 0
    /\ stats = ZeroStats
    /\ local = NoLocal

NextResume ==
    \/ \E papers_metadata \in BatchLists : StartBatch(papers_metadata)
    \/ CheckExisting
    \/ FindArtifact
    \/ ExtractText
    \/ PersistPaper
    \/ LogSuccess
    \/ Interrupt
    \/ Resume

SpecResume == InitResume /\ [][NextResume]_vars

\* The paper rows without their serial identity and creation timestamp.
PaperContent(d) ==
    {[arxiv_id |-> p.arxiv_id, title |-> p.title, abstract |-> p.abstract,
      authors |-> p.authors, published_date |-> p.published_date,
      pdf_path |-> p.pdf_path, full_text |-> p.full_text,
      is_seminal |-> p.is_seminal] : p \in d.papers}

\* No identifier has two rows, and every row is whole: identifier and title
\* are there, and the text is empty or all of the PDF's text.
C18_ValidStore ==
    /\ \A p, q \in db.papers : p.arxiv_id = q.arxiv_id => p = q
    /\ \A p \in db.papers :
           /\ p.arxiv_id # NULL
           /\ p.title # NULL
           /\ \/ p.full_text = ""
              \/ p.full_text = extract_text(files, PdfPath(p.arxiv_id))

\* The restarted run has returned, the store having accepted its statements.
C18_ResumedDone == pc = "done" /\ hist.interrupts >= 1 /\ stats.failed_db = 0

\* C18 as stated: after an interruption between two papers and a new run
\* over the same input, the store holds the same paper records as after one
\* uninterrupted run, and is valid at every point.
C18_SameRecords ==
    /\ C18_ValidStore
    /\ C18_ResumedDone
           => db.papers = run_papers(hist.db0, files, queue, 1).papers

\* C18 (amended): after an interruption between two papers and a new run
\* over the same input, the store holds for every identifier the same paper
\* record as after one uninterrupted run, in every column but the serial
\* identity and the creation timestamp of papers first stored by the new run;
\* at every point each identifier has at most one row and every row is whole.
C18_SameContent ==
    /\ C18_ValidStore
    /\ C18_ResumedDone
           => PaperContent(db) = PaperContent(run_papers(hist.db0, files, queue, 1))

\* A run interrupted after its first paper and started again has returned,
\* with a paper stored by each of the two runs.
C18_Witness ==
    /\ C18_ResumedDone
    /\ Len(queue) >= 2
    /\ Cardinality(db.papers) >= Cardinality(hist.db0.papers) + 2
    /\ stats.successful >= 1
    /\ stats.skipped >= 1

\* ------------------------------------------------------ concurrent callers

\* The callers that use the store at the same time.
MaxCallers == 3

Callers == 1..MaxCallers

\* The upserts they make: insert_concept(key, 'method', text), or insert_paper
\* of the identifier key with title and full text text.
ConcurrentCalls ==
    [op : {"insert_concept"}, key : {"NeRF"}, text : {"first", "second"}]
        \cup [op : {"insert_concept"}, key : {"3DGS"}, text : {"first"}]
        \cup [op : {"insert_paper"}, key : {"P1"}, text : {"A", "B"}]

PaperOf(call) ==
    [arxiv_id |-> call.key, title |-> call.text, abstract |-> "", authors |-> <<>>,
     published_date |-> NULL, pdf_path |-> NULL, full_text |-> call.text,
     is_seminal |-> FALSE]

\* The rows with the call's key, as a caller connecting now would read them.
SeenBy(d, call) ==
    IF call.op = "insert_concept"
    THEN IF HasConcept(d, call.key) THEN <<ConceptRow(d, call.key)>> ELSE <<>>
    ELSE get_paper_by_arxiv_id(d, call.key)

\* A variant that decides between insert and update, and computes the new
\* mention_count, from the rows read when the caller connected.
execute_read_then_write(d, seen, call) ==
    IF call.op = "insert_paper"
    THEN insert_paper(d, PaperOf(call))
    ELSE IF seen = <<>>
    THEN IF HasConcept(d, call.key)
         THEN Fail([d EXCEPT !.concepts_id_seq = @ + 1], "unique_violation")
         ELSE insert_concept(d, call.key, "method", call.text)
    ELSE LET old == ConceptRow(d, call.key)
             new == [old EXCEPT !.mention_count = seen[1].mention_count + 1]
         IN  Ok([d EXCEPT !.concepts = (@ \ {old}) \cup {new}], Num(old.id))

\* conn.execute(text(query), ...); conn.commit(): the one INSERT ... ON
\* CONFLICT statement resolves the conflict and computes
\* concepts.mention_count + 1 on the store as it is when the statement runs,
\* whatever the caller saw before (seen).
execute_upsert(d, seen, call) ==
    IF call.op = "insert_paper"
    THEN insert_paper(d, PaperOf(call))
    ELSE insert_concept(d, call.key, "method", call.text)

\* A caller not yet in a call.
NoCall == [at |-> "idle", call |-> [op |-> "none", key |-> NULL, text |-> NULL],
           seen |-> <<>>, result |-> NoNum]

\* order: the calls in the order in which their statements were executed.
ConcurrentHist == NoHist @@ [order |-> <<>>]

\* with self.engine.connect() as conn: caller c enters its call.
Connect(c, call) ==
    /\ local[c].at = "idle"
    /\ local' = [local EXCEPT ![c] = [at |-> "connected", call |-> call,
                                      seen |-> SeenBy(db, call), result |-> NoNum]]
    /\ UNCHANGED <<db, ret, hist, pc, queue, idx, stats, files>>

\* The callers whose statement has written the call's key and has not yet
\* committed: they hold the lock on the key's row.
Writers(call) ==
    {c \in Callers : local[c].at = "executed" /\ local[c].call.op = call.op
                       /\ local[c].call.key = call.key}

\* result = conn.execute(text(query), ...): caller c's statement runs. A
\* statement whose key another caller has written without committing waits
\* for that caller's commit. db holds the rows as the next statement on the
\* same key will find them.
Execute(c) ==
    /\ local[c].at = "connected"
    /\ Writers(local[c].call) = {}
    /\ LET r == execute_upsert(db, local[c].seen, local[c].call)
       IN  /\ db' = r.db
           /\ local' = [local EXCEPT ![c].at = "executed", ![c].result = r.result]
           /\ hist' = [hist EXCEPT !.order = Append(@, local[c].call)]
    /\ UNCHANGED <<ret, pc, queue, idx, stats, files>>

\* conn.commit(); return result.fetchone()[0]
Commit(c) ==
    /\ local[c].at = "executed"
    /\ local' = [local EXCEPT ![c].at = "returned"]
    /\ ret' = Ret(local[c].call.op, local[c].call.key, Ok(db, local[c].result))
    /\ UNCHANGED <<db, hist, pc, queue, idx, stats, files>>

InitConcurrent ==
    /\ db = EmptyDb
    /\ ret = NoRet
    /\ hist = ConcurrentHist
    /\ pc = "idle"
    /\ queue = <<>>
    /\ idx = 0
    /\ stats = ZeroStats
    /\ local = [c \in Callers |-> NoCall]
    /\ files = NoFiles

NextConcurrent ==
    \/ \E c \in Callers : \E call \in ConcurrentCalls : Connect(c, call)
    \/ \E c \in Callers : Execute(c)
    \/ \E c \in Callers : Commit(c)

SpecConcurrent == InitConcurrent /\ [][NextConcurrent]_vars

\* The store after the calls, one after the other.
RECURSIVE run_calls(_, _, _)
run_calls(d, calls, i) ==
    IF i > Len(calls) THEN d
    ELSE run_calls(IF calls[i].op = "insert_paper"
                   THEN insert_paper(d, PaperOf(calls[i])).db
                   ELSE insert_concept(d, calls[i].key, "method", calls[i].text).db,
                   calls, i + 1)

\* The calls made so far for a key.
CallsFor(op, key) ==
    {i \in 1..Len(hist.order) : hist.order[i].op = op /\ hist.order[i].key = key}

\* C19: under every interleaving of concurrent upserts the store is the one
\* that the calls leave when made one after the other in some order: the N
\* insert_concept calls made for a name leave one row with mention_count N,
\* and the insert_paper calls made for an identifier leave one row.
C19_AsSequential ==
    /\ db = run_calls(EmptyDb, hist.order, 1)
    /\ \A name \in ConceptNames :
           LET rows == {c \in db.concepts : c.name = name}
           IN  IF CallsFor("insert_concept", name) = {}
               THEN rows = {}
               ELSE /\ Cardinality(rows) = 1
                    /\ \A c \in rows :
                           c.mention_count = Cardinality(CallsFor("insert_concept", name))
    /\ \A arxiv_id \in ArxivIds :
           Cardinality({p \in db.papers : p.arxiv_id = arxiv_id})
               = IF CallsFor("insert_paper", arxiv_id) = {} THEN 0 ELSE 1

\* Three callers connected before NeRF was stored, all three calls have
\* returned, and the row counts three mentions.
C19_Witness ==
    /\ \A c \in 1..3 :
           /\ local[c].at = "returned"
           /\ local[c].call.op = "insert_concept"
           /\ local[c].call.key = "NeRF"
           /\ local[c].seen = <<>>
    /\ \E c \in db.concepts : c.name = "NeRF" /\ c.mention_count = 3

\* ------------------------------------------------ C20: absent identifier

\* The dictionaries whose identifier or title is absent: None, or no such key.
AbsentInputs ==
    {paper_data \in PaperInputs \cup KeylessInputs :
        \/ paper_data.arxiv_id \in {NULL, MISSING}
        \/ paper_data.title \in {NULL, MISSING}}

\* Every table of the store is as it was.
SameRows(d1, d2) ==
    /\ d1.papers = d2.papers
    /\ d1.concepts = d2.concepts
    /\ d1.paper_concepts = d2.paper_concepts
    /\ d1.paper_relationships = d2.paper_relationships
    /\ d1.extraction_logs = d2.extraction_logs

C20_AbsentStep ==
    \A paper_data \in AbsentInputs :
        (ret'.key = paper_data.arxiv_id /\ InsertPaper(paper_data)) =>
            /\ ret'.error \in {"not_null_violation", "statement_error"}
            /\ ret'.result = NoNum
            /\ SameRows(db', db)

\* C20: insert_paper called with a record whose identifier or title is absent
\* fails with an error and returns no id, and no paper row (nor any other row)
\* is created or modified.
C20_AbsentRejected == [][C20_AbsentStep]_vars

\* A call for the stored identifier P1 with no title has just been rejected.
C20_Witness ==
    /\ ret.op = "insert_paper"
    /\ ret.key = "P1"
    /\ ret.error = "not_null_violation"
    /\ HasPaper(db, "P1")
    /\ PaperRow(db, "P1").id < db.papers_id_seq

\* ----------------------------------------------- C21: concept type checked

\* The documented concept types.
DocumentedTypes == {"method", "technique", "dataset", "metric", "concept"}

C21_BadTypeStep ==
    \A c \in ConceptInputs :
        (c.concept_type \notin DocumentedTypes /\ ret'.key = c.name /\ InsertConcept(c)) =>
            /\ ret'.error # "none"
            /\ db'.concepts = db.concepts

\* C21: insert_concept called with a type outside method, technique, dataset,
\* metric, concept fails with an error, creates no concept and increments no
\* mention counter.
C21_BadTypeRejected == [][C21_BadTypeStep]_vars

\* A concept of an undocumented type is stored and has been counted twice.
C21_Witness ==
    /\ ret.op = "insert_concept" /\ ret.error = "none"
    /\ \E c \in db.concepts :
          /\ c.name = ret.key
          /\ c.concept_type \notin DocumentedTypes
          /\ c.mention_count = 2

\* ------------------------------------------------------ C22: paper lookup

\* The dictionaries of the lookup test: both identifiers, two titles.
LookupInputs ==
    {paper_data \in PaperInputs :
        /\ paper_data.arxiv_id # NULL
        /\ paper_data.title # NULL
        /\ paper_data.full_text = "hello"
        /\ paper_data.published_date = NULL}

\* A caller runs get_paper_by_arxiv_id(arxiv_id).
GetPaper(arxiv_id) ==
    /\ ret' = Ret("get_paper_by_arxiv_id", arxiv_id,
                  Ok(db, get_paper_by_arxiv_id(db, arxiv_id)))
    /\ UNCHANGED <<db, hist>>
    /\ UNCHANGED runVars

InitLookup == InitPapers

\* test_db.main's insert, query and delete, in any order and number.
NextLookup ==
    \/ \E paper_data \in LookupInputs : InsertPaper(paper_data)
    \/ \E arxiv_id \in ArxivIds : GetPaper(arxiv_id)
    \/ \E arxiv_id \in ArxivIds : DeletePaper(arxiv_id)

SpecLookup == InitLookup /\ [][NextLookup]_vars

\* C22: get_paper_by_arxiv_id returns without an error; for an identifier
\* upserted and not deleted since, it returns the one stored record of that
\* identifier, carrying the title of the most recent upsert; for an identifier
\* never upserted, or deleted since, it returns the not-found result.
C22_RecordOrNotFound ==
    ret.op = "get_paper_by_arxiv_id" =>
        /\ ret.error = "none"
        /\ IF hist.paper[ret.key] = <<>>
           THEN ret.result = <<>>
           ELSE /\ Len(ret.result) = 1
                /\ ret.result[1] \in db.papers
                /\ ret.result[1].arxiv_id = ret.key
                /\ ret.result[1].title = hist.paper[ret.key][1].title

\* P1 was upserted, deleted, and then looked up while P2 is stored: not found.
C22_Witness ==
    /\ ret.op = "get_paper_by_arxiv_id" /\ ret.key = "P1"
    /\ ret.result = <<>>
    /\ HasPaper(db, "P2")
    /\ \A p \in db.papers : p.id >= 2

\* ------------------------------------------------- relationships of a paper

\* Largest value the paper_relationships sequence may reach while the
\* relationships of a paper are queried.
MaxGraphRelSeq == 3

\* WHERE (pr.source_paper_id = :paper_id OR pr.target_paper_id = :paper_id)
\*   AND pr.confidence >= :min_confidence: a NULL confidence compares to NULL
\* and the row is left out.
matching_edges(d, paper_id, min_confidence) ==
    {e \in d.paper_relationships :
        /\ (e.source_paper_id = paper_id \/ e.target_paper_id = paper_id)
        /\ IsNum(e.confidence)
        /\ Val(e.confidence) >= min_confidence}

\* SELECT pr.id, pr.relationship_type, pr.explanation, pr.confidence,
\* source.title, target.title, target.arxiv_id ... JOIN papers source ...
\* JOIN papers target.
relationship_row(d, e) ==
    LET source == CHOOSE p \in d.papers : p.id = e.source_paper_id
        target == CHOOSE p \in d.papers : p.id = e.target_paper_id
    IN  [id |-> e.id,
         relationship_type |-> e.relationship_type,
         explanation |-> e.explanation,
         confidence |-> e.confidence,
         source_title |-> source.title,
         target_title |-> target.title,
         target_arxiv_id |-> target.arxiv_id]

\* ORDER BY pr.confidence DESC: the lists holding each row of S once, by
\* descending confidence. The statement names no second sort key, so rows of
\* equal confidence come in whatever order the store produces them.
ordered_by_confidence(S) ==
    {rows \in [1..Cardinality(S) -> S] :
        /\ \A i, j \in 1..Cardinality(S) : i # j => rows[i] # rows[j]
        /\ \A i, j \in 1..Cardinality(S) :
              i < j => Val(rows[i].confidence) >= Val(rows[j].confidence)}

\* A variant without the OR pr.target_paper_id = :paper_id.
get_paper_relationships_outgoing(d, paper_id, min_confidence) ==
    ordered_by_confidence(
        {relationship_row(d, e) :
            e \in {x \in matching_edges(d, paper_id, min_confidence) :
                      x.source_paper_id = paper_id}})

\* get_paper_relationships(paper_id, min_confidence): the lists the query may
\* return.
get_paper_relationships(d, paper_id, min_confidence) ==
    ordered_by_confidence(
        {relationship_row(d, e) : e \in matching_edges(d, paper_id, min_confidence)})

\* The store with three papers upserted as skeletons (identities 1, 2 and 3).
GraphDb ==
    insert_paper(PapersDb, [StubOf("P1") EXCEPT !.arxiv_id = "P3", !.title = "C"]).db

GraphPaperIds == {p.id : p \in GraphDb.papers}

\* Edges of one type between two of the three papers, with confidence 0.9,
\* 0.4 or absent.
GraphInputs ==
    {a \in [source_paper_id : GraphPaperIds, target_paper_id : GraphPaperIds,
            relationship_type : {"cites"}, explanation : {"because"},
            confidence : {Num(9), Num(4), NoNum}] :
        a.source_paper_id # a.target_paper_id}

\* The paper whose relationships are queried.
QueriedPapers == {1}

\* Thresholds in tenths: 0.0 (the default) and 0.5.
MinConfidences == {0, 5}

\* A caller inserts an edge of the graph.
InsertEdge(a) ==
    /\ db.paper_relationships_id_seq < MaxGraphRelSeq
    /\ LET r == insert_relationship(db, a.source_paper_id, a.target_paper_id,
                                    a.relationship_type, a.explanation, a.confidence)
       IN  /\ db' = r.db
           /\ ret' = Ret("insert_relationship",
                         <<a.source_paper_id, a.target_paper_id, a.relationship_type>>, r)
    /\ UNCHANGED <<hist, runVars>>

\* A caller runs get_paper_relationships(paper_id, min_confidence).
GetPaperRelationships(paper_id, min_confidence) ==
    /\ \E rows \in get_paper_relationships(db, paper_id, min_confidence) :
          ret' = Ret("get_paper_relationships", <<paper_id, min_confidence>>, Ok(db, rows))
    /\ UNCHANGED <<db, hist>>
    /\ UNCHANGED runVars

InitGraph ==
    /\ db = GraphDb
    /\ ret = NoRet
    /\ hist = PapersHist
    /\ RunIdle

NextGraph ==
    \/ \E a \in GraphInputs : InsertEdge(a)
    \/ \E paper_id \in QueriedPapers : \E min_confidence \in MinConfidences :
          GetPaperRelationships(paper_id, min_confidence)

SpecGraph == InitGraph /\ [][NextGraph]_vars

\* The stored edges in which paper_id is source or target and whose confidence
\* is at least min_confidence.
EdgesOf(paper_id, min_confidence) ==
    {e \in db.paper_relationships :
        /\ paper_id \in {e.source_paper_id, e.target_paper_id}
        /\ e.confidence # NoNum
        /\ e.confidence[1] >= min_confidence}

\* C23: get_paper_relationships(p, min_confidence) returns exactly the stored
\* edges in which p is the source or the target and whose confidence is at
\* least min_confidence: each of them once, with its type, explanation and
\* confidence, and no other edge.
C23_ExactlyTheEdges ==
    ret.op = "get_paper_relationships" =>
        LET edges == EdgesOf(ret.key[1], ret.key[2])
            rows == ret.result
        IN  /\ ret.error = "none"
            /\ Len(rows) = Cardinality(edges)
            /\ {rows[i].id : i \in 1..Len(rows)} = {e.id : e \in edges}
            /\ \A i \in 1..Len(rows) :
                  \E e \in edges :
                      /\ e.id = rows[i].id
                      /\ e.relationship_type = rows[i].relationship_type
                      /\ e.explanation = rows[i].explanation
                      /\ e.confidence = rows[i].confidence

\* Paper 1 is the source of one edge and the target of another, a third edge
\* joins papers 2 and 3, and the query for paper 1 returned the first two.
C23_Witness ==
    /\ ret.op = "get_paper_relationships" /\ ret.key = <<1, 0>>
    /\ Len(ret.result) = 2
    /\ \E e \in db.paper_relationships : e.source_paper_id = 1
    /\ \E e \in db.paper_relationships : e.target_paper_id = 1
    /\ \E e \in db.paper_relationships : e.source_paper_id # 1 /\ e.target_paper_id # 1

\* C24: the result of get_paper_relationships is ordered by confidence
\* descending, and rows of equal confidence appear by ascending id, so the
\* stored edges determine the order.
C24_OrderDetermined ==
    ret.op = "get_paper_relationships" =>
        \A i, j \in 1..Len(ret.result) :
            i < j =>
                \/ ret.result[i].confidence[1] > ret.result[j].confidence[1]
                \/ /\ ret.result[i].confidence = ret.result[j].confidence
                   /\ ret.result[i].id < ret.result[j].id

\* Two edges of equal confidence were returned with the later one first.
C24_Witness ==
    /\ ret.op = "get_paper_relationships"
    /\ Len(ret.result) = 2
    /\ ret.result[1].confidence = ret.result[2].confidence
    /\ ret.result[1].id > ret.result[2].id

\* ------------------------------------------------------------- statistics

\* Largest value the paper_relationships sequence may reach while statistics
\* are taken.
MaxStatRelSeq == 3

\* LIMIT 5
TopLimit == 5

RECURSIVE sum_counts(_, _)
sum_counts(counts, keys) ==
    IF keys = {} THEN 0
    ELSE LET k == CHOOSE x \in keys : TRUE
         IN  counts[k] + sum_counts(counts, keys \ {k})

\* A variant with one group per stored paper, sources or not.
rel_counts_all_papers(d) ==
    [s \in {p.id : p \in d.papers} |->
        Cardinality({e \in d.paper_relationships : e.source_paper_id = s})]

\* SELECT COUNT(*) as rel_count FROM paper_relationships GROUP BY
\* source_paper_id: one count per paper that is the source of an edge.
rel_counts(d) ==
    [s \in {e.source_paper_id : e \in d.paper_relationships} |->
        Cardinality({e \in d.paper_relationships : e.source_paper_id = s})]

\* AVG(rel_count): NULL over no rows, else the sum over the number of rows, as
\* the fraction <<sum, rows>>.
AVG(counts) ==
    IF DOMAIN counts = {} THEN NoNum
    ELSE <<sum_counts(counts, DOMAIN counts), Cardinality(DOMAIN counts)>>

\* A variant that passes the average on as it is.
avg_unguarded(avg) == avg

\* result[0]['avg_relationships'] or 0
avg_or_zero(avg) == IF avg = NoNum THEN <<0, 1>> ELSE avg

\* round(x, 2) of the fraction x, in hundredths: to the nearest hundredth, a
\* tie going to the even one.
round2(x) ==
    LET scaled == 100 * x[1]
        q == scaled \div x[2]
        twice == 2 * (scaled % x[2])
    IN  IF twice > x[2] THEN q + 1
        ELSE IF twice < x[2] THEN q
        ELSE IF q % 2 = 0 THEN q ELSE q + 1

\* SELECT relationship_type, COUNT(*) ... GROUP BY relationship_type, as the
\* dictionary from type to count.
relationships_by_type(d) ==
    [y \in {e.relationship_type : e \in d.paper_relationships} |->
        Cardinality({e \in d.paper_relationships : e.relationship_type = y})]

\* SELECT name, mention_count FROM concepts ORDER BY mention_count DESC
\* LIMIT 5: the lists of at most five rows the query may return; the order of
\* concepts with equal mention_count is the store's.
top_concepts(d) ==
    LET n == IF Cardinality(d.concepts) < TopLimit THEN Cardinality(d.concepts)
             ELSE TopLimit
    IN  {[i \in 1..n |-> [name |-> rows[i].name, mentions |-> rows[i].mention_count]] :
            rows \in {f \in [1..n -> d.concepts] :
                        /\ \A i, j \in 1..n : i # j => f[i] # f[j]
                        /\ \A i, j \in 1..n : i < j => f[i].mention_count >= f[j].mention_count
                        /\ \A c \in d.concepts :
                              (\A i \in 1..n : f[i] # c)
                                  => \A i \in 1..n : f[i].mention_count >= c.mention_count}}

\* get_statistics(*args): the outcomes the call may have. The method takes no
\* argument besides self, so a call that passes one raises TypeError before
\* any query runs; round(None, 2) raises TypeError too.
get_statistics(d, args) ==
    IF args # <<>> THEN {Fail(d, "type_error")}
    ELSE LET avg == avg_or_zero(AVG(rel_counts(d)))
         IN  IF avg = NoNum THEN {Fail(d, "type_error")}
             ELSE {Ok(d, [total_papers |-> Cardinality(d.papers),
                          total_concepts |-> Cardinality(d.concepts),
                          total_relationships |-> Cardinality(d.paper_relationships),
                          avg_relationships_per_paper |-> round2(avg),
                          relationships_by_type |-> relationships_by_type(d),
                          top_concepts |-> top]) : top \in top_concepts(d)}

\* Edges of two types between two of the three papers.
StatInputs ==
    {a \in [source_paper_id : GraphPaperIds, target_paper_id : GraphPaperIds,
            relationship_type : RelTypes, explanation : {"because"},
            confidence : {Num(9)}] :
        a.source_paper_id # a.target_paper_id}

\* A caller inserts an edge.
InsertStatEdge(a) ==
    /\ db.paper_relationships_id_seq < MaxStatRelSeq
    /\ LET r == insert_relationship(db, a.source_paper_id, a.target_paper_id,
                                    a.relationship_type, a.explanation, a.confidence)
       IN  /\ db' = r.db
           /\ ret' = Ret("insert_relationship",
                         <<a.source_paper_id, a.target_paper_id, a.relationship_type>>, r)
    /\ UNCHANGED <<hist, runVars>>

\* A caller runs get_statistics(*args).
GetStatistics(args) ==
    /\ \E r \in get_statistics(db, args) : ret' = Ret("get_statistics", args, r)
    /\ UNCHANGED <<db, hist>>
    /\ UNCHANGED runVars

InitStats == InitGraph

NextStats ==
    \/ \E a \in StatInputs : InsertStatEdge(a)
    \/ \E arxiv_id \in ArxivIds : DeletePaper(arxiv_id)
    \/ GetStatistics(<<>>)

SpecStats == InitStats /\ [][NextStats]_vars

\* The papers with at least one outgoing relationship.
SourcePapers == {p \in db.papers : \E e \in db.paper_relationships : e.source_paper_id = p.id}

\* x is y/z to the nearest hundredth, in hundredths.
NearestHundredth(x, y, z) == 2 * z * x - z <= 200 * y /\ 200 * y <= 2 * z * x + z

\* C25: when relationships are stored, the average degree reported by
\* get_statistics is the number of relationships divided by the number of
\* distinct source papers, to two decimals: papers without an outgoing
\* relationship, papers that are only targets among them, are not in the
\* denominator.
C25_AverageOverSources ==
    (ret.op = "get_statistics" /\ db.paper_relationships # {}) =>
        /\ ret.error = "none"
        /\ NearestHundredth(ret.result.avg_relationships_per_paper,
                            Cardinality(db.paper_relationships),
                            Cardinality(SourcePapers))

\* Three relationships from two source papers, the third paper being a target
\* only: the average is 1.50.
C25_Witness ==
    /\ ret.op = "get_statistics"
    /\ Cardinality(db.paper_relationships) = 3
    /\ Cardinality(SourcePapers) = 2
    /\ Cardinality(db.papers) = 3
    /\ \E p \in db.papers : \E e \in db.paper_relationships :
          /\ e.target_paper_id = p.id
          /\ p \notin SourcePapers
    /\ ret.result.avg_relationships_per_paper = 150

\* C26: when no relationship is stored, get_statistics completes without a
\* fault and reports an average degree of 0, a relationship count of 0 and an
\* empty breakdown by type.
C26_ZeroWhenEmpty ==
    (ret.op = "get_statistics" /\ db.paper_relationships = {}) =>
        /\ ret.error = "none"
        /\ ret.result.avg_relationships_per_paper = 0
        /\ ret.result.total_relationships = 0
        /\ DOMAIN ret.result.relationships_by_type = {}

\* Statistics were taken after a deletion removed the last relationships.
C26_Witness ==
    /\ ret.op = "get_statistics" /\ ret.error = "none"
    /\ db.paper_relationships = {}
    /\ db.paper_relationships_id_seq >= 1
    /\ ret.result.avg_relationships_per_paper = 0

\* ----------------------------------------------------------- top concepts

\* Most insert_concept calls made while the top concepts are queried.
MaxMentions == 2

\* Six concept names, one more than the statistics list.
TopNames == <<"NeRF", "3DGS", "SDF", "PSNR", "LLFF", "SfM">>

\* The store after insert_concept was called n times for name.
RECURSIVE mentioned(_, _, _)
mentioned(d, name, n) ==
    IF n = 0 THEN d
    ELSE mentioned(insert_concept(d, name, "method", NULL).db, name, n - 1)

\* The store after the i-th of the first k names was inserted i times: the
\* mention counts are 1 to k.
RECURSIVE ConceptsDb(_)
ConceptsDb(k) ==
    IF k = 0 THEN EmptyDb
    ELSE mentioned(ConceptsDb(k - 1), TopNames[k], k)

\* The calls a caller can write: get_statistics(), and get_statistics(1) by a
\* caller who wants one concept only.
StatArgs == {<<>>, <<1>>}

\* mentions: the insert_concept calls made since the start.
TopHist == NoHist @@ [mentions |-> 0]

\* A caller runs insert_concept(name, 'method', None).
MentionConcept(name) ==
    /\ hist.mentions < MaxMentions
    /\ LET r == insert_concept(db, name, "method", NULL)
       IN  /\ db' = r.db
           /\ ret' = Ret("insert_concept", name, r)
    /\ hist' = [hist EXCEPT !.mentions = @ + 1]
    /\ UNCHANGED runVars

InitTop ==
    /\ db \in {ConceptsDb(k) : k \in 0..Len(TopNames)}
    /\ ret = NoRet
    /\ hist = TopHist
    /\ RunIdle

NextTop ==
    \/ \E i \in 1..Len(TopNames) : MentionConcept(TopNames[i])
    \/ \E args \in StatArgs : GetStatistics(args)

SpecTop == InitTop /\ [][NextTop]_vars

\* C27: get_statistics returns the top N concepts by mention counter in
\* descending order, N being the caller's argument and 5 when none is given;
\* when fewer than N concepts exist all of them are returned.
C27_TopN ==
    ret.op = "get_statistics" =>
        /\ ret.error = "none"
        /\ LET n == IF ret.key = <<>> THEN 5 ELSE ret.key[1]
               top == ret.result.top_concepts
               listed == {top[i].name : i \in 1..Len(top)}
           IN  /\ Len(top) = IF Cardinality(db.concepts) < n
                             THEN Cardinality(db.concepts) ELSE n
               /\ Cardinality(listed) = Len(top)
               /\ \A i \in 1..Len(top) :
                     \E c \in db.concepts :
                         c.name = top[i].name /\ c.mention_count = top[i].mentions
               /\ \A i, j \in 1..Len(top) : i < j => top[i].mentions >= top[j].mentions
               /\ \A c \in db.concepts :
                     c.name \notin listed =>
                         \A i \in 1..Len(top) : top[i].mentions >= c.mention_count

\* Six concepts are stored and the caller who asked for the top one got an
\* error.
C27_Witness ==
    /\ ret.op = "get_statistics" /\ ret.key = <<1>>
    /\ ret.error = "type_error"
    /\ Cardinality(db.concepts) = 6

\* ---------------------------------------------------- C28: the audit log

\* The log_extraction calls: for paper 1, paper 2 or no paper, one stage, both
\* outcomes.
LogInputs ==
    [paper_id : {Num(1), Num(2), NoNum}, stage : {"pdf_extraction"},
     status : {"success", "failed"}, error_message : {NULL},
     processing_time : {NoNum}]

\* A caller runs log_extraction(paper_id, stage, status, error_message,
\* processing_time).
LogExtraction(l) ==
    /\ db.extraction_logs_id_seq < MaxLogSeq
    /\ LET r == log_extraction(db, l.paper_id, l.stage, l.status, l.error_message,
                               l.processing_time)
       IN  /\ db' = r.db
           /\ ret' = Ret("log_extraction", l.paper_id, r)
    /\ UNCHANGED <<hist, runVars>>

InitLogs == InitRels

NextLogs ==
    \/ \E l \in LogInputs : LogExtraction(l)
    \/ \E paper_data \in StubInputs : InsertPaper(paper_data)
    \/ \E arxiv_id \in ArxivIds : DeletePaper(arxiv_id)

SpecLogs == InitLogs /\ [][NextLogs]_vars

C28_AppendStep ==
    /\ db.extraction_logs \subseteq db'.extraction_logs
    /\ (ret'.op = "log_extraction" /\ ret'.error = "none"
            /\ db'.extraction_logs_id_seq # db.extraction_logs_id_seq)
          => Cardinality(db'.extraction_logs \ db.extraction_logs) = 1

\* C28: the audit log is append-only: each log_extraction call adds exactly
\* one new row, also when a row with the same values exists, and no step ever
\* updates or removes an existing row.
C28_AppendOnly == [][C28_AppendStep]_vars

\* A paper was deleted and the rows logged for it are gone.
C28_Witness ==
    /\ ret.op = "delete_paper"
    /\ db.extraction_logs_id_seq >= 2
    /\ db.extraction_logs = {}

\* ------------------------------------------- C29: referential integrity

\* The store with three papers and two concepts.
IntegrityDb ==
    insert_concept(insert_concept(GraphDb, "NeRF", "method", "first").db,
                   "3DGS", "method", NULL).db

\* Largest values the paper_relationships and paper_concepts sequences may
\* reach while papers are deleted.
MaxIntegrityRelSeq == 2

MaxIntegrityLinkSeq == 2

\* Edges of one type and one confidence between two of the three paper ids,
\* stored or deleted.
IntegrityEdges ==
    {a \in [source_paper_id : GraphPaperIds, target_paper_id : GraphPaperIds,
            relationship_type : {"cites"}, explanation : {"because"},
            confidence : {Num(9)}] :
        a.source_paper_id # a.target_paper_id}

\* Links of paper 1 or 2 to concept 1, which is stored, or 3, which is not.
IntegrityLinks ==
    [paper_id : {1, 2}, concept_id : {1, 3}, relevance_score : {Num(5)},
     context : {"ctx"}]

\* A caller inserts an edge.
InsertIntegrityEdge(a) ==
    /\ db.paper_relationships_id_seq < MaxIntegrityRelSeq
    /\ LET r == insert_relationship(db, a.source_paper_id, a.target_paper_id,
                                    a.relationship_type, a.explanation, a.confidence)
       IN  /\ db' = r.db
           /\ ret' = Ret("insert_relationship",
                         <<a.source_paper_id, a.target_paper_id, a.relationship_type>>, r)
    /\ UNCHANGED <<hist, runVars>>

\* A caller links a paper to a concept.
InsertIntegrityLink(l) ==
    /\ db.paper_concepts_id_seq < MaxIntegrityLinkSeq
    /\ LET r == link_paper_concept(db, l.paper_id, l.concept_id, l.relevance_score, l.context)
       IN  /\ db' = r.db
           /\ ret' = Ret("link_paper_concept", <<l.paper_id, l.concept_id>>, r)
    /\ UNCHANGED <<hist, runVars>>

InitIntegrity ==
    /\ db = IntegrityDb
    /\ ret = NoRet
    /\ hist = EntitiesHist
    /\ RunIdle

NextIntegrity ==
    \/ \E a \in IntegrityEdges : InsertIntegrityEdge(a)
    \/ \E l \in IntegrityLinks : InsertIntegrityLink(l)
    \/ \E arxiv_id \in ArxivIds : DeletePaper(arxiv_id)

SpecIntegrity == InitIntegrity /\ [][NextIntegrity]_vars

StoredPaperIds(d) == {p.id : p \in d.papers}

References(d) ==
    /\ \A e \in d.paper_relationships :
          /\ e.source_paper_id \in StoredPaperIds(d)
          /\ e.target_paper_id \in StoredPaperIds(d)
    /\ \A l \in d.paper_concepts :
          /\ l.paper_id \in StoredPaperIds(d)
          /\ l.concept_id \in {c.id : c \in d.concepts}

C29_DeleteStep ==
    (ret'.op = "delete_paper" /\ HasPaper(db, ret'.key)) =>
        LET gone == PaperRow(db, ret'.key).id
        IN  /\ ~HasPaper(db', ret'.key)
            /\ db'.paper_relationships =
                  {e \in db.paper_relationships :
                      e.source_paper_id # gone /\ e.target_paper_id # gone}
            /\ db'.paper_concepts = {l \in db.paper_concepts : l.paper_id # gone}
            /\ db'.concepts = db.concepts

\* C29: in every reachable state each relationship's source and target and
\* each link's paper and concept are stored; deleting a paper removes every
\* relationship in which it is source or target and every one of its concept
\* links, and nothing else: edges between other papers, links of other papers
\* and the concepts stay.
C29_ReferentialIntegrity == []References(db) /\ [][C29_DeleteStep]_vars

\* Paper 1 was deleted: it had an edge and a link, which are gone, and the
\* edge between papers 2 and 3 and the link of paper 2 are still stored.
C29_Witness ==
    /\ ret.op = "delete_paper" /\ ret.key = "P1"
    /\ db.paper_relationships_id_seq = 2
    /\ Cardinality(db.paper_relationships) = 1
    /\ \E e \in db.paper_relationships : e.source_paper_id # 1 /\ e.target_paper_id # 1
    /\ db.paper_concepts_id_seq >= 2
    /\ Cardinality(db.paper_concepts) = 1

\* ------------------------------------------- extract_and_populate.main

\* The PDFs on disk when main starts: none, or P1 with or without P2.
MainFiles ==
    {NoFiles,
     [NoFiles EXCEPT ![PdfPath("P1")] = Pdf(<<"hello">>)],
     [NoFiles EXCEPT ![PdfPath("P1")] = Pdf(<<"hello">>),
                     ![PdfPath("P2")] = Pdf(<<"world">>)]}

\* What main finds when it starts: whether papers/pdfs and the metadata file
\* exist, the list the file holds, and whether the store answers SELECT 1.
MainEnvs ==
    [papers_dir : BOOLEAN, metadata_file : BOOLEAN,
     papers_metadata : MetaLists, reachable : BOOLEAN]

\* db0: the store when main started.
MainHist(d) == NoHist @@ [db0 |-> d]

\* return False / return True, and sys.exit(0 if success else 1): cause names
\* what ended the run.
Exit(code, cause) ==
    /\ pc' = "exited"
    /\ ret' = Ret("main", cause, Ok(db, Num(code)))

\* main up to the call of process_papers (lines 296-317): without papers/pdfs,
\* without the metadata file or without an answer from the store it returns
\* False; otherwise process_papers starts.  A directory that holds a PDF
\* exists.
MainBegin(env) ==
    /\ pc = "idle"
    /\ (\E p \in DOMAIN files : files[p].exists) => env.papers_dir
    /\ IF ~env.papers_dir
       THEN Exit(1, "no_directory") /\ UNCHANGED <<queue, idx, stats, local>>
       ELSE IF ~env.metadata_file
       THEN Exit(1, "file_not_found") /\ UNCHANGED <<queue, idx, stats, local>>
       ELSE IF ~env.reachable
       THEN Exit(1, "unreachable") /\ UNCHANGED <<queue, idx, stats, local>>
       ELSE /\ queue' = env.papers_metadata
            /\ idx' = 1
            /\ stats' = [ZeroStats EXCEPT !.total = Len(env.papers_metadata)]
            /\ local' = NoLocal
            /\ pc' = IF env.papers_metadata = <<>> THEN "done" ELSE "check"
            /\ ret' = NoRet
    /\ UNCHANGED <<db, hist, files>>

\* main after process_papers (lines 319-350): an exception raised out of
\* process_papers, or by the queries of print_summary and verify_extraction,
\* is caught and main returns False; otherwise it returns True.
MainEnd ==
    /\ \/ /\ pc = "raised"
          /\ Exit(1, IF queue[idx].arxiv_id = MISSING \/ queue[idx].title = MISSING
                     THEN "key_error" ELSE "operational_error")
       \/ /\ pc = "done"
          /\ \/ Exit(0, "none")
             \/ Exit(1, "operational_error")
    /\ UNCHANGED <<db, hist, queue, idx, stats, local, files>>

InitMain ==
    /\ files \in MainFiles
    /\ db \in {EmptyDb, PapersDb}
    /\ hist = MainHist(db)
    /\ ret = NoRet
    /\ pc = "idle"
    /\ queue = <<>>
    /\ idx = 0
    /\ stats = ZeroStats
    /\ local = NoLocal

NextMain ==
    \/ \E env \in MainEnvs : MainBegin(env)
    \/ CheckExisting
    \/ FindArtifact
    \/ ExtractText
    \/ PersistPaper
    \/ LogSuccess
    \/ MainEnd

SpecMain == InitMain /\ [][NextMain]_vars

\* The faults of the run as a whole: no PDF directory, no metadata file, a
\* store that does not answer.
OrchestratorFaults == {"no_directory", "file_not_found", "unreachable", "operational_error"}

\* C30: the exit status of extract_and_populate.main reflects only faults of
\* the run as a whole: it is 1 only when the directory, the metadata file or
\* the store is unavailable, however many papers failed, and when the store
\* does not answer at the start no paper has been processed or written.
C30_ExitStatus ==
    pc = "exited" =>
        /\ ret.result = Num(1) => ret.key \in OrchestratorFaults
        /\ ret.key = "unreachable" =>
              /\ db = hist.db0
              /\ stats = ZeroStats
              /\ queue = <<>>

\* The store answered throughout, one paper was ingested, and the run ended
\* with status 1 on an entry without title.
C30_Witness ==
    /\ pc = "exited"
    /\ ret.key = "key_error"
    /\ ret.result = Num(1)
    /\ stats.successful = 1
    /\ stats.failed_db = 0
    /\ db.papers # hist.db0.papers

\* ------------------------------------------------- the retrying session

\* Retry(total=5, ...)
RetryTotal == 5

\* status_forcelist=[429, 500, 502, 503, 504]
status_forcelist == {429, 500, 502, 503, 504}

\* What one attempt of a GET may end in: a response with one of these status
\* codes, or no response at all within timeout=30 (a connection error or a
\* timeout).
NoResponse == 0

Outcomes == {200, 404, 429, 503, NoResponse}

\* A variant that retries after every response that is not a 200.
is_retry_any_error(status_code) == status_code # 200

\* Retry.is_retry for a GET: the response's status is in status_forcelist.
is_retry(status_code) == status_code \in status_forcelist

\* No request in flight.
NoRequest == [url |-> "none", total |-> RetryTotal]

\* outcomes: what the attempts of the request in flight ended in, in order.
\* requests: the requests made so far.
FetchHist == [outcomes |-> <<>>, requests |-> 0]

\* response = session.get(lookup_url, params=params, timeout=30): the first
\* request of get_citing_papers_from_semantic_scholar, with a fresh budget.
GetLookup ==
    /\ pc = "idle"
    /\ pc' = "get"
    /\ local' = [url |-> "lookup", total |-> RetryTotal]
    /\ hist' = [outcomes |-> <<>>, requests |-> hist.requests + 1]
    /\ UNCHANGED <<db, ret, queue, idx, stats, files>>

\* One attempt of the request in flight ends in outcome.  A 200 is handed to
\* the caller, which goes on to the second request or to the citations; a
\* status outside the list is handed to the caller, whose raise_for_status
\* raises; after a status of the list or no response the budget is
\* decremented and the request is sent again, unless the budget is exhausted
\* (total < 0), in which case the session raises.
Attempt(outcome) ==
    /\ pc = "get"
    /\ hist' = [hist EXCEPT !.outcomes = Append(@, outcome)]
    /\ IF outcome # NoResponse /\ ~is_retry(outcome)
       THEN IF outcome = 200
            THEN IF local.url = "lookup"
                 THEN /\ pc' = "lookup_done"
                      /\ ret' = Ret("get", local.url, Ok(db, Num(outcome)))
                      /\ UNCHANGED local
                 ELSE /\ pc' = "returned"
                      /\ ret' = Ret("get", local.url, Ok(db, Num(outcome)))
                      /\ UNCHANGED local
            ELSE /\ pc' = "raised"
                 /\ ret' = Ret("get", local.url, Fail(db, "http_error"))
                 /\ UNCHANGED local
       ELSE IF local.total - 1 < 0
            THEN /\ pc' = "raised"
                 /\ ret' = Ret("get", local.url,
                               Fail(db, IF outcome = NoResponse THEN "connection_error"
                                        ELSE "retry_error"))
                 /\ UNCHANGED local
            ELSE /\ local' = [local EXCEPT !.total = @ - 1]
                 /\ UNCHANGED <<pc, ret>>
    /\ UNCHANGED <<db, queue, idx, stats, files>>

\* response = session.get(citations_url, params=params, timeout=30): the
\* second request, with a fresh budget.
GetCitations ==
    /\ pc = "lookup_done"
    /\ pc' = "get"
    /\ local' = [url |-> "citations", total |-> RetryTotal]
    /\ hist' = [outcomes |-> <<>>, requests |-> hist.requests + 1]
    /\ UNCHANGED <<db, ret, queue, idx, stats, files>>

\* main, lines 369-379: the exception raised out of
\* get_citing_papers_from_semantic_scholar is caught, citing_papers = [], and
\* main goes on with the papers it has; without an exception it goes on with
\* the citing papers.
FetchHandled ==
    /\ pc \in {"raised", "returned"}
    /\ pc' = "continued"
    /\ queue' = <<>>
    /\ local' = NoRequest
    /\ UNCHANGED <<db, ret, hist, idx, stats, files>>

InitFetch ==
    /\ db = EmptyDb
    /\ ret = NoRet
    /\ hist = FetchHist
    /\ pc = "idle"
    /\ queue = <<>>
    /\ idx = 0
    /\ stats = ZeroStats
    /\ local = NoRequest
    /\ files = NoFiles

NextFetch ==
    \/ GetLookup
    \/ \E outcome \in Outcomes : Attempt(outcome)
    \/ GetCitations
    \/ FetchHandled

SpecFetch == InitFetch /\ [][NextFetch]_vars

\* The steps of the run are taken as long as one is possible: every attempt
\* ends, in a response or, after timeout=30, without one.
FairFetch == SpecFetch /\ WF_vars(NextFetch)

\* C31, bounded attempts: a request through the retrying session is attempted
\* at most six times, the first attempt and five retries; an attempt is made
\* again only when the one before ended in status 429, 500, 502, 503 or 504
\* or in no response; and a request that raised did so after a status outside
\* the list or after the sixth attempt.
C31_BoundedRetries ==
    /\ Len(hist.outcomes) <= RetryTotal + 1
    /\ \A i \in 1..Len(hist.outcomes) :
          (i < Len(hist.outcomes) \/ pc = "get") =>
              hist.outcomes[i] \in {429, 500, 502, 503, 504, NoResponse}
    /\ (pc = "raised" /\ ret.error # "http_error") => Len(hist.outcomes) = RetryTotal + 1

\* C31, termination: every run reaches the point where main goes on, with the
\* citing papers or, after a failure it caught, without them.
C31_Terminates == <>(pc = "continued")

\* The second request was answered 503 six times and the session raised.
C31_Witness ==
    /\ pc = "raised"
    /\ local.url = "citations"
    /\ ret.error = "retry_error"
    /\ Len(hist.outcomes) = 6
    /\ \A i \in 1..6 : hist.outcomes[i] = 503

\* C31, as stated: an attempt is made again only when the one before ended in
\* status 429, 500, 502, 503 or 504.
C31_OnlyTransientStatus ==
    \A i \in 1..Len(hist.outcomes) :
        (i < Len(hist.outcomes) \/ pc = "get") => hist.outcomes[i] \in {429, 500, 502, 503, 504}

\* C31: every request through the retrying session is attempted at most six
\* times, is attempted again only after status 429, 500, 502, 503 or 504 or
\* after an attempt that got no response, raises only after a status outside
\* the list or after the sixth attempt, and every run reaches the point where
\* main goes on, the failure caught.
C31_BoundedAndHandled == []C31_BoundedRetries /\ C31_Terminates

\* ------------------------------------------------ the top_concepts view

\* Largest value the paper_concepts sequence may reach under the view.
MaxViewLinkSeq == 3

\* LEFT JOIN paper_concepts pc ON c.id = pc.id, COUNT(DISTINCT pc.paper_id):
\* the association rows joined to concept c are those whose own id equals the
\* concept's id.
joined_links(d, c) == {l \in d.paper_concepts : c.id = l.id}

view_row(d, c) ==
    [id |-> c.id,
     name |-> c.name,
     concept_type |-> c.concept_type,
     mention_count |-> c.mention_count,
     paper_count |-> Cardinality({l.paper_id : l \in joined_links(d, c)})]

\* ORDER BY paper_count DESC: the lists holding each row of S once, by
\* descending paper_count; rows of equal count in any order.
ordered_by_paper_count(S) ==
    {rows \in [1..Cardinality(S) -> S] :
        /\ \A i, j \in 1..Cardinality(S) : i # j => rows[i] # rows[j]
        /\ \A i, j \in 1..Cardinality(S) :
              i < j => rows[i].paper_count >= rows[j].paper_count}

\* SELECT * FROM top_concepts: the lists the view may return.
top_concepts_view(d) == ordered_by_paper_count({view_row(d, c) : c \in d.concepts})

\* Links of one of the three papers to one of the two concepts.
ViewLinks ==
    [paper_id : GraphPaperIds, concept_id : {1, 2}, relevance_score : {Num(5)},
     context : {"ctx"}]

\* A caller links a paper to a concept.
InsertViewLink(l) ==
    /\ db.paper_concepts_id_seq < MaxViewLinkSeq
    /\ LET r == link_paper_concept(db, l.paper_id, l.concept_id, l.relevance_score, l.context)
       IN  /\ db' = r.db
           /\ ret' = Ret("link_paper_concept", <<l.paper_id, l.concept_id>>, r)
    /\ UNCHANGED <<hist, runVars>>

\* A caller reads the view.
SelectTopConcepts ==
    /\ \E rows \in top_concepts_view(db) :
          ret' = Ret("top_concepts", "view", Ok(db, rows))
    /\ UNCHANGED <<db, hist, runVars>>

InitView ==
    /\ db = IntegrityDb
    /\ ret = NoRet
    /\ hist = EntitiesHist
    /\ RunIdle

NextView ==
    \/ \E l \in ViewLinks : InsertViewLink(l)
    \/ \E arxiv_id \in ArxivIds : DeletePaper(arxiv_id)
    \/ SelectTopConcepts

SpecView == InitView /\ [][NextView]_vars

\* The papers linked to the concept with identity concept_id.
LinkedPapers(d, concept_id) ==
    {l.paper_id : l \in {x \in d.paper_concepts : x.concept_id = concept_id}}

\* C32: every row the view returns carries as paper_count the number of
\* distinct papers linked to its concept (0 for a concept without links),
\* there is one row per concept, and the rows come by descending paper_count.
C32_CountsLinkedPapers ==
    ret.op = "top_concepts" =>
        /\ Len(ret.result) = Cardinality(db.concepts)
        /\ \A i \in 1..Len(ret.result) :
              ret.result[i].paper_count =
                  Cardinality(LinkedPapers(db, ret.result[i].id))
        /\ \A i, j \in 1..Len(ret.result) :
              i < j => ret.result[i].paper_count >= ret.result[j].paper_count

\* Papers 1 and 2 are linked to concept 1 and nothing to concept 2; the view
\* reports one paper for each concept.
C32_Witness ==
    /\ ret.op = "top_concepts"
    /\ LinkedPapers(db, 1) = {1, 2}
    /\ LinkedPapers(db, 2) = {}
    /\ \A i \in 1..Len(ret.result) : ret.result[i].paper_count = 1

\* ------------------------------------------- C33: stored relationships

\* C33: every stored paper relationship has a source different from its
\* target and a confidence that is present and lies in [0,1] (tenths: 0..10).
C33_EdgesValid ==
    \A e \in db.paper_relationships :
        /\ e.source_paper_id # e.target_paper_id
        /\ IsNum(e.confidence)
        /\ 0 <= Val(e.confidence) /\ Val(e.confidence) <= 10

\* An insert_relationship call that passed no confidence committed and the
\* stored edge has none.
C33_Witness ==
    /\ ret.op = "insert_relationship"
    /\ ret.error = "none"
    /\ \E e \in db.paper_relationships :
          /\ Num(e.id) = ret.result
          /\ e.confidence = NoNum
          /\ e.source_paper_id # e.target_paper_id

\* ------------------------------------------- C34: the outcome counters

\* C34: when process_papers returns, every input paper has been counted in
\* exactly one outcome counter: successful + skipped + failed_pdf + failed_db
\* equals total.
C34_CountersPartition ==
    pc = "done" =>
        stats.successful + stats.skipped + stats.failed_pdf + stats.failed_db = stats.total

\* A run over one paper returned with the paper counted twice: as successful
\* and, its audit write having failed, as failed_db.
C34_Witness ==
    /\ pc = "done"
    /\ stats.total = 1
    /\ stats.successful = 1
    /\ stats.failed_db = 1
    /\ ret.op = "log_extraction"
    /\ ret.error # "none"

\* ------------------------------- C35: a run and another writer, interleaved

\* Largest value the papers sequence may reach through the other writer.
MaxRacePaperSeq == 2

\* The full records another run of process_papers (or any other caller of
\* insert_paper) writes: extracted text included.
RaceInputs == {prepare_paper_data(MetaOf(a, "A", PdfPath(a)), "hello") : a \in ArxivIds}

\* texted: the identifiers the other writer stored with text.
RaceHist == NoHist @@ [texted |-> {}]

\* Another process commits insert_paper(paper_data) against the same store,
\* at any point of the run: between two of its statements too.
OtherWriter(paper_data) ==
    /\ db.papers_id_seq < MaxRacePaperSeq
    /\ LET r == insert_paper(db, paper_data)
       IN  /\ db' = r.db
           /\ hist' = [HistPaper(hist, paper_data, r) EXCEPT
                          !.texted = @ \cup {paper_data.arxiv_id}]
    /\ UNCHANGED <<ret, runVars>>

\* The run's disk: P1's PDF is there or not, P2's is not.
InitRace ==
    /\ db = EmptyDb
    /\ ret = NoRet
    /\ hist = RaceHist
    /\ pc = "idle"
    /\ queue = <<>>
    /\ idx = 0
    /\ stats = ZeroStats
    /\ local = NoLocal
    /\ files \in {NoFiles, [NoFiles EXCEPT ![PdfPath("P1")] = Pdf(<<"hello">>)]}

NextRace ==
    \/ \E papers_metadata \in MetaLists : StartRun(papers_metadata)
    \/ CheckExisting
    \/ FindArtifact
    \/ ExtractText
    \/ PersistPaper
    \/ LogSuccess
    \/ \E paper_data \in RaceInputs : OtherWriter(paper_data)

SpecRace == InitRace /\ [][NextRace]_vars

\* C35: a paper stored with non-empty full text keeps a non-empty full text
\* through every step, the steps of process_papers interleaved with another
\* writer's included.
C35_TextKept ==
    [][\A p \in db.papers : Truthy(p.full_text) =>
          \A q \in db'.papers : q.arxiv_id = p.arxiv_id => Truthy(q.full_text)]_vars

\* The run passed its existence check for P1, the other writer then stored P1
\* with text, and the run's metadata-only upsert left P1 with empty text.
C35_Witness ==
    /\ "P1" \in hist.texted
    /\ ret.op = "insert_paper"
    /\ ret.key = "P1"
    /\ ret.error = "none"
    /\ stats.failed_pdf >= 1
    /\ HasPaper(db, "P1")
    /\ PaperRow(db, "P1").full_text = ""

\* ------------------------------------------- C36: the list of new papers

\* C36: the list get_citing_papers_from_semantic_scholar returned holds each
\* identifier at most once, so no identifier is handed to download twice.
C36_EachIdOnce ==
    pc \in {"fc_confirm", "fc_download", "fc_save"} =>
        \A i, j \in 1..Len(local.citing_papers) :
            i # j => local.citing_papers[i].arxiv_id # local.citing_papers[j].arxiv_id

\* The feed listed one new paper twice, both entries were returned, filling
\* the budget, and both are in the batch being downloaded.
C36_Witness ==
    /\ pc = "fc_download"
    /\ Len(local.citations) = 2
    /\ local.citations[1] = local.citations[2]
    /\ Len(local.citing_papers) = MaxNewPapers
    /\ local.citing_papers[1].arxiv_id = local.citing_papers[2].arxiv_id

\* ------------------------------------------- C37: the persisted snapshot

\* The snapshot on disk, the empty list without file.
Snapshot(fs) == IF fs[MetadataPath].exists THEN fs[MetadataPath].papers ELSE <<>>

\* No two entries of papers carry the same identifier.
UniqueIds(papers) ==
    \A i, j \in 1..Len(papers) : i # j => papers[i].arxiv_id # papers[j].arxiv_id

\* The step in which fetch_citing_papers.main writes the snapshot: the entries
\* saved before are written back as they were, in their places, and entries
\* are only added after them.
C37_SaveStep ==
    pc = "fc_save" =>
        /\ Len(Snapshot(files')) >= Len(Snapshot(files))
        /\ SubSeq(Snapshot(files'), 1, Len(Snapshot(files))) = Snapshot(files)

\* C37: a run of fetch_citing_papers.main writes every previously saved entry
\* back unchanged and only adds entries, and the saved snapshot never holds
\* two entries with one identifier.
C37_SnapshotOnlyGrows == []UniqueIds(Snapshot(files)) /\ [][C37_SaveStep]_vars

\* A run that found the seminal paper in the snapshot has ended: it queued
\* new papers and saved them after the entries that were there.
C37_Witness ==
    /\ pc = "idle"
    /\ SeminalId \in hist.recorded
    /\ SeminalId \notin hist.queued
    /\ hist.queued # {}
    /\ hist.recorded \cup hist.queued = IdsOf(Snapshot(files))
    /\ Len(Snapshot(files)) > Cardinality(hist.recorded)

\* ------------------------------------------------ the bulk upload script

\* Largest value the papers sequence may reach through the bulk upload.
MaxUploadPaperSeq == 4

\* The DATE a timestamp string is cast to: its date part.
date_of(published) == IF published = NULL THEN NULL ELSE before_T(published, 1)

\* A variant of the statement that ends in ON CONFLICT (arxiv_id) DO UPDATE
\* SET full_text = EXCLUDED.full_text.
upload_row_overwrites(d, paper) ==
    LET id == d.papers_id_seq + 1
        d1 == [d EXCEPT !.papers_id_seq = id]
    IN  IF paper.arxiv_id = MISSING \/ paper.title = MISSING
        THEN Fail(d, "key_error")
        ELSE IF paper.arxiv_id = NULL \/ paper.title = NULL
        THEN Fail(d1, "not_null_violation")
        ELSE IF HasPaper(d, paper.arxiv_id)
        THEN LET old == PaperRow(d, paper.arxiv_id)
             IN  Ok([d1 EXCEPT !.papers = (@ \ {old}) \cup {[old EXCEPT !.full_text = NULL]}],
                    NoNum)
        ELSE Ok([d1 EXCEPT !.papers = @ \cup
                    {[id |-> id,
                      arxiv_id |-> paper.arxiv_id,
                      title |-> paper.title,
                      abstract |-> get(paper.abstract, NULL),
                      authors |-> paper.authors,
                      published_date |-> date_of(get(paper.published, NULL)),
                      pdf_path |-> get(paper.local_pdf_path, NULL),
                      full_text |-> NULL,
                      is_seminal |-> paper.is_seminal,
                      processed_at |-> Now(d.papers_id_seq)]}], NoNum)

\* cur.execute(INSERT INTO papers ... VALUES (...) ON CONFLICT (arxiv_id) DO
\* NOTHING, (paper['arxiv_id'], paper['title'], paper.get('abstract'), ...,
\* None, ...)): a missing key raises KeyError before the statement is sent;
\* the published string is cast to DATE; full_text is bound to None.  The
\* fetch scripts always write the authors and is_seminal keys, so their
\* defaults are not taken.
upload_row(d, paper) ==
    LET id == d.papers_id_seq + 1
        d1 == [d EXCEPT !.papers_id_seq = id]
    IN  IF paper.arxiv_id = MISSING \/ paper.title = MISSING
        THEN Fail(d, "key_error")
        ELSE IF paper.arxiv_id = NULL \/ paper.title = NULL
        THEN Fail(d1, "not_null_violation")
        ELSE IF HasPaper(d, paper.arxiv_id)
        THEN Ok(d1, NoNum)
        ELSE Ok([d1 EXCEPT !.papers = @ \cup
                    {[id |-> id,
                      arxiv_id |-> paper.arxiv_id,
                      title |-> paper.title,
                      abstract |-> get(paper.abstract, NULL),
                      authors |-> paper.authors,
                      published_date |-> date_of(get(paper.published, NULL)),
                      pdf_path |-> get(paper.local_pdf_path, NULL),
                      full_text |-> NULL,
                      is_seminal |-> paper.is_seminal,
                      processed_at |-> Now(d.papers_id_seq)]}], NoNum)

\* for paper in papers: cur.execute(...), all in one transaction.
RECURSIVE upload_rows(_, _, _)
upload_rows(d, papers, i) ==
    IF i > Len(papers) THEN Ok(d, Num(Len(papers)))
    ELSE LET r == upload_row(d, papers[i])
         IN  IF r.error # "none" THEN r ELSE upload_rows(r.db, papers, i + 1)

\* upload_2_db, from the loop to conn.commit(): an exception in the loop ends
\* the script before the commit, so the rows written so far are rolled back;
\* the values taken from the sequence are not given back.
upload_2_db(d, papers) ==
    LET r == upload_rows(d, papers, 1)
    IN  IF r.error = "none" THEN r
        ELSE Fail([d EXCEPT !.papers_id_seq = r.db.papers_id_seq], r.error)

\* The script is run over the snapshot papers; psycopg2.connect may fail.
Upload(papers) ==
    /\ db.papers_id_seq + Len(papers) <= MaxUploadPaperSeq
    /\ \E r \in {upload_2_db(db, papers), Unavailable(db)} :
           /\ db' = r.db
           /\ ret' = Ret("upload_2_db", papers, r)
    /\ UNCHANGED <<hist, runVars>>

InitUpload == InitPapers

NextUpload ==
    \/ \E papers \in MetaLists : Upload(papers)
    \/ \E paper_data \in RaceInputs : InsertPaper(paper_data)

SpecUpload == InitUpload /\ [][NextUpload]_vars

\* A run of the bulk upload: the stored rows before and after it.
C38_UploadStep ==
    ret'.op = "upload_2_db" =>
        /\ \A p \in db.papers : p \in db'.papers
        /\ \A q \in db'.papers \ db.papers :
              /\ q.full_text = NULL
              /\ ~HasPaper(db, q.arxiv_id)
              /\ \E i \in 1..Len(ret'.key) :
                    /\ ret'.key[i].arxiv_id = q.arxiv_id
                    /\ ret'.key[i].title = q.title
        /\ ret'.error = "none" =>
              \A i \in 1..Len(ret'.key) : HasPaper(db', ret'.key[i].arxiv_id)

\* C38: a run of the bulk upload leaves every stored row as it was, full text
\* included; the rows it adds are for identifiers of the snapshot that were
\* not stored, and carry no full text; and when it commits, every identifier
\* of the snapshot is stored.
C38_SkeletonsOnly == [][C38_UploadStep]_vars

\* An upload over P1 and P2 committed: P1, stored with text before, still has
\* its text, and P2 was created without text.
C38_Witness ==
    /\ ret.op = "upload_2_db"
    /\ ret.error = "none"
    /\ Len(ret.key) = 2
    /\ IdsOf(ret.key) = {"P1", "P2"}
    /\ HasPaper(db, "P1") /\ PaperRow(db, "P1").full_text = "hello"
    /\ HasPaper(db, "P2") /\ PaperRow(db, "P2").full_text = NULL

====
